---- MODULE Spec2Model ----
(***************************************************************************)
(* Model of the prometheus-mcp tool-call dispatcher, its operation catalog *)
(* and the PrometheusClient it drives.                                     *)
(*                                                                         *)
(* One tool call is one suspend/resume flow: CallTool runs the dispatcher  *)
(* and the handler up to the first HTTP GET, HttpRespond delivers the      *)
(* outcome of the pending GET and runs the continuation up to the next GET *)
(* or to the response of the call.                                         *)
(*                                                                         *)
(* Strings built by template literals are sequences of fragments, so that  *)
(* "the message carries x" is "x is a fragment of the message".            *)
(***************************************************************************)
EXTENDS Integers, Sequences, FiniteSets, TLC

VARIABLES
    allTools,       \* keys of the composed catalog
    config,         \* the connection descriptor held by the client
    pc,             \* "idle" | "await" | "done": position of the tool call
    name,           \* request.params.name
    hasArgs,        \* whether request.params.arguments was supplied
    args,           \* request.params.arguments (raw)
    validatedArgs,  \* what the handler received
    handlerRan,     \* tool.handler was invoked
    frame,          \* locals of the suspended handler and client method
    pending,        \* the HTTP GET in flight
    httpLog,        \* GETs issued by this call, with their outcomes
    clientLog,      \* client methods completed by this call, with results
    outcome,        \* how tool.handler settled: its return value or its error
    response,       \* the value returned by the tool-call handler
    uncaught,       \* an exception left the tool-call handler
    clockLog,       \* readings of the clock the handler of this call made
    tools,          \* the operations the last tools/list request was answered with
    other           \* the tool call in progress at the same time, suspended at its await

vars == <<allTools, config, pc, name, hasArgs, args, validatedArgs, handlerRan,
          frame, pending, httpLog, clientLog, outcome, response, uncaught,
          clockLog, tools, other>>

\* Failed HTTP requests the backend may answer one call with.
MaxFailures == 2

(***************************************************************************)
(* JavaScript values                                                       *)
(***************************************************************************)
Undefined == "undefined"

EmptyObject == [k \in {} |-> Undefined]

\* obj.key, undefined when the property is absent
Field(obj, key) == IF key \in DOMAIN obj THEN obj[key] ELSE Undefined

\* truthiness of a string-or-undefined value
Truthy(v) == v # Undefined /\ v # ""

\* a || b
OrElse(a, b) == IF Truthy(a) THEN a ELSE b

Contains(text, fragment) == \E i \in DOMAIN text : text[i] = fragment

\* Properties that hold a string or undefined (the others are never undefined).
OptionalStringKeys == {"version", "url"}

\* JSON.stringify(obj): properties whose value is undefined are dropped
JSONStringify(obj) ==
    [json |-> [k \in {f \in DOMAIN obj :
                        ~(f \in OptionalStringKeys /\ obj[f] = Undefined)}
               |-> obj[k]]]

(***************************************************************************)
(* JavaScript numbers and strings.  A number that counts milliseconds is   *)
(* a sequence of decimal digits, least significant first, zero being <<>>: *)
(* the integers a double holds exactly (below 2^53) do not fit the integers *)
(* of the checker.  A string is taken apart character by character.        *)
(***************************************************************************)
RECURSIVE Num(_)
\* the number n >= 0
Num(n) == IF n = 0 THEN <<>> ELSE <<n % 10>> \o Num(n \div 10)

RECURSIVE Trim(_)
Trim(a) == IF a # <<>> /\ a[Len(a)] = 0 THEN Trim(SubSeq(a, 1, Len(a) - 1)) ELSE a

\* the digits of a sequence of column sums, carries propagated
RECURSIVE Carry(_, _)
Carry(columns, c) ==
    IF columns = <<>> THEN Num(c)
    ELSE <<(Head(columns) + c) % 10>> \o Carry(Tail(columns), (Head(columns) + c) \div 10)

Digit(a, i) == IF i \in DOMAIN a THEN a[i] ELSE 0

\* a + b
Plus(a, b) ==
    Trim(Carry([i \in 1..(IF Len(a) > Len(b) THEN Len(a) ELSE Len(b)) |->
                   Digit(a, i) + Digit(b, i)], 0))

RECURSIVE Column(_, _, _, _)
Column(a, b, k, i) ==
    IF i > Len(a) THEN 0 ELSE a[i] * Digit(b, k - i + 1) + Column(a, b, k, i + 1)

\* a * b
Times(a, b) ==
    IF a = <<>> \/ b = <<>> THEN <<>>
    ELSE Trim(Carry([k \in 1..(Len(a) + Len(b) - 1) |-> Column(a, b, k, 1)], 0))

RECURSIVE Greater(_, _)
\* a > b
Greater(a, b) ==
    IF Len(a) # Len(b) THEN Len(a) > Len(b)
    ELSE IF a = <<>> THEN FALSE
    ELSE IF a[Len(a)] # b[Len(b)] THEN a[Len(a)] > b[Len(b)]
    ELSE Greater(Trim(SubSeq(a, 1, Len(a) - 1)), Trim(SubSeq(b, 1, Len(b) - 1)))

\* a - b, for a >= b: the columns are kept in 0..9 by borrowing
RECURSIVE Borrow(_, _, _, _)
Borrow(a, b, i, c) ==
    IF i > Len(a) THEN <<>>
    ELSE LET d == a[i] - Digit(b, i) - c IN
         <<(d + 10) % 10>> \o Borrow(a, b, i + 1, IF d < 0 THEN 1 ELSE 0)

Minus(a, b) == Trim(Borrow(a, b, 1, 0))

RECURSIVE Power(_, _)
\* Math.pow(a, n)
Power(a, n) == IF n = 0 THEN Num(1) ELSE Times(a, Power(a, n - 1))

RECURSIVE Quotient(_, _, _, _)
\* floor(a / b) for b > 0 and a / b < 10^(place + 1), digit by digit from the
\* leading one: acc holds the digits found above place
Quotient(a, b, place, acc) ==
    IF place < 0 THEN acc
    ELSE LET with(d) == Times(Num(acc + d * 10^place), b)
             d == CHOOSE d \in 0..9 : /\ ~Greater(with(d), a)
                                      /\ d = 9 \/ Greater(with(d + 1), a)
         IN  Quotient(a, b, place - 1, acc + d * 10^place)

RECURSIVE FloorLogFrom(_, _, _)
FloorLogFrom(bytes, k, i) ==
    IF Greater(Power(k, i + 1), bytes) THEN i ELSE FloorLogFrom(bytes, k, i + 1)

\* Math.floor(Math.log(bytes) / Math.log(k)) for bytes >= 1: the quotient of
\* the two doubles has this floor for every integer below 2^53 but the three
\* just below k^5 (k = 1024)
FloorLog(bytes, k) == FloorLogFrom(bytes, k, 0)

\* (a / b).toFixed(2) in hundredths, for a / b < 10000: a / b is exact in a
\* double for a below 2^53 and b a power of two, and toFixed rounds it to the
\* nearest hundredth, a tie upwards
toFixed(a, b) == Quotient(Plus(Times(Num(200), a), b), Times(Num(2), b), 5, 0)

Char(text, i) == SubSeq(text, i, i)

Digits == {"0", "1", "2", "3", "4", "5", "6", "7", "8", "9"}

DigitValue(c) ==
    CASE c = "0" -> 0 [] c = "1" -> 1 [] c = "2" -> 2 [] c = "3" -> 3 [] c = "4" -> 4
      [] c = "5" -> 5 [] c = "6" -> 6 [] c = "7" -> 7 [] c = "8" -> 8 [] c = "9" -> 9

\* parseInt of a string of decimal digits
parseInt(text) == Trim([i \in 1..Len(text) |-> DigitValue(Char(text, Len(text) + 1 - i))])

(***************************************************************************)
(* Time: relative durations, dates, the clock                              *)
(***************************************************************************)
Units == {"s", "m", "h", "d", "w"}

\* const multipliers = { s: 1000, m: 60 * 1000, h: 60 * 60 * 1000, ... }
multipliers(unit) ==
    CASE unit = "s" -> Num(1000)
      [] unit = "m" -> Num(60 * 1000)
      [] unit = "h" -> Num(60 * 60 * 1000)
      [] unit = "d" -> Num(24 * 60 * 60 * 1000)
      [] unit = "w" -> Num(7 * 24 * 60 * 60 * 1000)

NoMatch == [matched |-> FALSE]

\* text.match(/^(\d+)([smhdw])$/)
RelativeMatch(text) ==
    IF /\ Len(text) >= 2
       /\ Char(text, Len(text)) \in Units
       /\ \A i \in 1..(Len(text) - 1) : Char(text, i) \in Digits
    THEN [matched |-> TRUE, value |-> SubSeq(text, 1, Len(text) - 1),
          unit |-> Char(text, Len(text))]
    ELSE NoMatch

\* const ms = parseInt(match[1]) * multipliers[match[2]]
Lookback(match) == Times(parseInt(match.value), multipliers(match.unit))

\* the largest time value of a Date: 100,000,000 days from the epoch
MaxTime == Times(Num(100000000), Num(24 * 60 * 60 * 1000))

InvalidDate == [valid |-> FALSE]

\* new Date(t): the time value t, or an invalid Date beyond +-MaxTime
Date(negative, magnitude) ==
    IF Greater(magnitude, MaxTime) THEN InvalidDate
    ELSE [valid |-> TRUE, negative |-> negative /\ magnitude # <<>>,
          magnitude |-> magnitude]

\* new Date(now - ms)
DateBefore(now, ms) ==
    IF Greater(ms, now) THEN Date(TRUE, Minus(ms, now)) ELSE Date(FALSE, Minus(now, ms))

DigitChar(d) ==
    CASE d = 0 -> "0" [] d = 1 -> "1" [] d = 2 -> "2" [] d = 3 -> "3" [] d = 4 -> "4"
      [] d = 5 -> "5" [] d = 6 -> "6" [] d = 7 -> "7" [] d = 8 -> "8" [] d = 9 -> "9"

RECURSIVE Decimal(_)
\* the digits of a number, most significant first
Decimal(a) == IF a = <<>> THEN "" ELSE Decimal(Tail(a)) \o DigitChar(Head(a))

\* parseFloat(text) + '': the number of hundredths, trailing zeros dropped
NumberText(hundredths) ==
    LET whole == hundredths \div 100
        tenths == (hundredths % 100) \div 10
        last == hundredths % 10
    IN  (IF whole = 0 THEN "0" ELSE Decimal(Num(whole)))
        \o (IF tenths = 0 /\ last = 0 THEN ""
            ELSE IF last = 0 THEN "." \o DigitChar(tenths)
            ELSE "." \o DigitChar(tenths) \o DigitChar(last))

\* function formatBytes(bytes: number): string
formatBytes(bytes) ==
    IF bytes = <<>> THEN "0 Bytes"
    ELSE LET k == Num(1024)
             sizes == <<"Bytes", "KB", "MB", "GB", "TB">>
             i == FloorLog(bytes, k)
         IN  NumberText(toFixed(bytes, Power(k, i))) \o " "
                \o (IF i + 1 \in DOMAIN sizes THEN sizes[i + 1] ELSE "undefined")

\* date.toISOString() of a valid Date: a text that names its instant (the
\* milliseconds since the epoch stand for the calendar fields)
toISOString(date) ==
    "T" \o (IF date.negative THEN "-" ELSE "+")
        \o (IF date.magnitude = <<>> THEN "0" ELSE Decimal(date.magnitude)) \o "ms"

\* RangeError thrown by toISOString() of an invalid Date
InvalidTimeValue ==
    [isAxiosError |-> FALSE, hasResponse |-> FALSE, hasRequest |-> FALSE,
     status |-> 0, data |-> EmptyObject, message |-> <<"Invalid time value">>]

\* Milliseconds that may pass between two readings of the clock in one handler.
MaxElapsed == 1

\* Date.now() when a call arrives
Now == Times(Num(1700000), Num(1000000))

\* the readings of the clock a handler gets, in order
Clocks == {<<Now, Plus(Now, Num(e))>> : e \in 0..MaxElapsed}

(***************************************************************************)
(* Process environment and configuration                                   *)
(***************************************************************************)
ProcessEnv == [PROMETHEUS_URL |-> "http://prometheus:9090/"]

\* loadConfig: the trailing slash of PROMETHEUS_URL is removed
loadConfig ==
    [prometheusUrl |-> IF ProcessEnv.PROMETHEUS_URL = "http://prometheus:9090/"
                       THEN "http://prometheus:9090"
                       ELSE ProcessEnv.PROMETHEUS_URL,
     username |-> Undefined,
     password |-> Undefined]

(***************************************************************************)
(* HTTP: what the backend can answer a GET with, and axios' view of it     *)
(***************************************************************************)
BuildInfoData == [version |-> "2.45.0", revision |-> "abc123"]
RuntimeInfoData == [startTime |-> "2024-01-01T00:00:00Z", goroutineCount |-> "42"]
FlagsData == [logLevel |-> "info"]
\* a configuration text and its length in characters
ConfigYamls == {"global: {}", "scrape_configs: [...]"}
YamlLength(yaml) == IF yaml = "global: {}" THEN 10 ELSE 2500
VectorData ==
    [resultType |-> "vector",
     result |-> <<[metric |-> [instance |-> "host:9100", job |-> "node"],
                   value |-> <<1700000, "42">>]>>]

\* probe_success and probe_duration_seconds samples of blackbox_exporter
Probe(target, value) ==
    [metric |-> [target |-> target, instance |-> "blackbox:9115", module |-> "http_2xx",
                 job |-> "blackbox"],
     value |-> <<1700000, value>>]

ProbeSuccessDatas ==
    {[resultType |-> "vector", result |-> <<>>],
     [resultType |-> "vector",
      result |-> <<Probe("https://example.com", "1"), Probe("https://example.org", "0")>>]}

ProbeDurationDatas ==
    {[resultType |-> "vector", result |-> <<>>],
     [resultType |-> "vector", result |-> <<Probe("https://example.org", "1.50")>>],
     [resultType |-> "vector",
      result |-> <<Probe("https://example.com", "0.25"), Probe("https://example.org", "NaN")>>]}

\* range-query results: no series, or the series of one alert
MatrixDatas ==
    {[resultType |-> "matrix", result |-> <<>>],
     [resultType |-> "matrix",
      result |-> <<[metric |-> [alertname |-> "HighCPU", severity |-> "critical",
                                instance |-> "host:9100", job |-> "node"],
                    values |-> <<<<1700000, "1">>, <<1700060, "1">>>>]>>]}

Target(job, instance, health, lastError) ==
    [labels |-> [job |-> job, instance |-> instance], health |-> health,
     lastScrape |-> "2024-01-01T00:00:00Z", lastScrapeDuration |-> "0.005",
     lastError |-> lastError, scrapeUrl |-> "http://" \o instance \o "/metrics",
     scrapeInterval |-> "15s"]

\* what /api/v1/targets may hold
TargetsDatas ==
    {[activeTargets |-> <<>>, droppedTargets |-> <<>>],
     [activeTargets |-> <<Target("node", "host:9100", "up", ""),
                          Target("api", "host:8080", "down", "connection refused"),
                          Target("node", "other:9100", "up", "")>>,
      droppedTargets |-> <<>>],
     [activeTargets |-> <<Target("api", "host:9100", "unknown", ""),
                          Target("node", "host:9100", "down", "timeout")>>,
      droppedTargets |-> <<[discoveredLabels |-> [job |-> "old"]]>>]}

\* what /api/v1/label/__name__/values may hold: no name, a few names, or
\* more names than the default cap of list_metrics
MetricsDatas ==
    {<<>>,
     <<"up", "node_cpu", "Node_Load", "http_requests", "node_up">>,
     [i \in 1..101 |-> "metric_" \o Decimal(Num(i))]}

\* byte counts at and around the powers of 1024, up to 2^53 - 1, the largest
\* integer a JSON number holds exactly
Kilo == Num(1024)
ByteLists ==
    {<<>>,
     <<[name |-> "instance", value |-> Power(Kilo, 2)],
       [name |-> "job", value |-> Kilo],
       [name |-> "le", value |-> Num(0)],
       [name |-> "__name__", value |-> Num(1)]>>,
     <<[name |-> "a", value |-> Num(1023)],
       [name |-> "b", value |-> Num(1500)],
       [name |-> "c", value |-> Num(1536)],
       [name |-> "d", value |-> Minus(Power(Kilo, 2), Num(1))],
       [name |-> "e", value |-> Power(Kilo, 3)],
       [name |-> "f", value |-> Minus(Power(Kilo, 4), Num(1))],
       [name |-> "g", value |-> Power(Kilo, 4)],
       [name |-> "h", value |-> Times(Num(1023), Power(Kilo, 4))]>>,
     <<[name |-> "pod", value |-> Power(Kilo, 5)],
       [name |-> "id", value |-> Plus(Times(Num(9007199), Num(1000000000)), Num(254740991))]>>}

HeadStats ==
    [numSeries |-> 1200, numLabelPairs |-> 340, chunkCount |-> 5600,
     minTime |-> Times(Num(1699990), Num(1000000)),
     maxTime |-> Times(Num(1700000), Num(1000000))]

\* /api/v1/status/tsdb: every list there, or memoryInBytesByLabelName left out
TsdbDatas ==
         {[headStats |-> HeadStats,
           seriesCountByMetricName |-> <<[name |-> "up", value |-> 12],
                                         [name |-> "node_cpu", value |-> 8]>>,
           labelValueCountByLabelName |-> <<[name |-> "instance", value |-> 4]>>,
           memoryInBytesByLabelName |-> l,
           seriesCountByLabelValuePair |-> <<[name |-> "job=node", value |-> 9]>>]
            : l \in ByteLists}
    \cup {[headStats |-> HeadStats,
           seriesCountByMetricName |-> <<[name |-> "up", value |-> 12]>>,
           labelValueCountByLabelName |-> <<>>,
           seriesCountByLabelValuePair |-> <<>>]}

\* the payloads of a successful envelope, per path
SuccessData(path) ==
    CASE path = "/api/v1/status/buildinfo" -> {BuildInfoData}
      [] path = "/api/v1/status/runtimeinfo" -> {RuntimeInfoData}
      [] path = "/api/v1/status/config" -> {[yaml |-> y] : y \in ConfigYamls}
      [] path = "/api/v1/status/flags" -> {FlagsData}
      [] path = "/api/v1/query" -> {VectorData} \cup ProbeSuccessDatas \cup ProbeDurationDatas
      [] path = "/api/v1/query_range" -> MatrixDatas
      [] path = "/api/v1/targets" -> TargetsDatas
      [] path = "/api/v1/label/__name__/values" -> MetricsDatas
      [] path = "/api/v1/status/tsdb" -> TsdbDatas

ErrorEnvelope == [status |-> "error", error |-> "parse error", errorType |-> "bad_data"]

Successes(path) ==
    {[kind |-> "response", status |-> 200, body |-> [status |-> "success", data |-> d]]
        : d \in SuccessData(path)}

StatusPaths == {"/api/v1/status/buildinfo", "/api/v1/status/runtimeinfo",
                "/api/v1/status/config", "/api/v1/status/flags"}
Paths == StatusPaths \cup {"/api/v1/query", "/api/v1/query_range", "/api/v1/targets",
                          "/api/v1/label/__name__/values", "/api/v1/status/tsdb"}

\* a response whose envelope reports an error (HTTP 200 or not) or no
\* response at all; a deployment that restricts its status endpoints also
\* answers them with an error page that holds no envelope, or not in time
RestrictedFailures ==
         {[kind |-> "response", status |-> 403, body |-> EmptyObject]}
    \cup {[kind |-> "transport", message |-> "timeout of 30000ms exceeded"]}

CommonFailures ==
         {[kind |-> "response", status |-> s, body |-> ErrorEnvelope] : s \in {200, 400}}
    \cup {[kind |-> "transport", message |-> "connect ECONNREFUSED"]}

Failures(path) ==
    IF path \in StatusPaths THEN CommonFailures \cup RestrictedFailures ELSE CommonFailures

AllFailures == CommonFailures \cup RestrictedFailures

StatusText(status) ==
    CASE status = 200 -> "200" [] status = 400 -> "400" [] status = 403 -> "403"

\* an Error that is not an AxiosError
PlainError(message) ==
    [isAxiosError |-> FALSE, hasResponse |-> FALSE, hasRequest |-> FALSE,
     status |-> 0, data |-> EmptyObject, message |-> message]

\* axios.get: resolves with the body on a 2xx response, rejects with an
\* AxiosError carrying the response (bad status) or only the request
AxiosGet(http) ==
    IF http.kind = "response"
    THEN IF http.status >= 200 /\ http.status < 300
         THEN [resolved |-> TRUE, data |-> http.body]
         ELSE [resolved |-> FALSE,
               error |-> [isAxiosError |-> TRUE, hasResponse |-> TRUE, hasRequest |-> TRUE,
                          status |-> http.status, data |-> http.body,
                          message |-> <<"Request failed with status code ",
                                        StatusText(http.status)>>]]
    ELSE [resolved |-> FALSE,
          error |-> [isAxiosError |-> TRUE, hasResponse |-> FALSE, hasRequest |-> TRUE,
                     status |-> 0, data |-> EmptyObject, message |-> <<http.message>>]]

(***************************************************************************)
(* PrometheusClient                                                        *)
(***************************************************************************)
\* handleError whose connection message leaves the base URL out
handleErrorNoUrl(error) ==
    IF error.isAxiosError /\ error.hasResponse
    THEN PlainError(<<"Prometheus API error: ">>
                    \o (IF Truthy(Field(error.data, "error"))
                        THEN <<error.data.error>> ELSE error.message)
                    \o <<" (", OrElse(Field(error.data, "errorType"),
                                      StatusText(error.status)), ")">>)
    ELSE IF error.isAxiosError /\ error.hasRequest
    THEN PlainError(<<"Cannot connect to Prometheus: ">> \o error.message)
    ELSE error

\* handleError: the Error it throws
handleError(error) ==
    IF error.isAxiosError /\ error.hasResponse
    THEN PlainError(<<"Prometheus API error: ">>
                    \o (IF Truthy(Field(error.data, "error"))
                        THEN <<error.data.error>> ELSE error.message)
                    \o <<" (", OrElse(Field(error.data, "errorType"),
                                      StatusText(error.status)), ")">>)
    ELSE IF error.isAxiosError /\ error.hasRequest
    THEN PlainError(<<"Cannot connect to Prometheus at ", config.prometheusUrl, ": ">>
                    \o error.message)
    ELSE error

Ok(value) == [ok |-> TRUE, value |-> value]
Err(error) == [ok |-> FALSE, error |-> error]

\* a client method has finished / has issued another GET
MethodDone(result) == [done |-> TRUE, result |-> result]
MethodGet(request, mstate) == [done |-> FALSE, request |-> request, mstate |-> mstate]

Get(path, params) == [path |-> path, params |-> params]

\* the GET a client method issues first
MethodRequest(method, margs) ==
    CASE method = "testConnection" -> Get("/api/v1/status/buildinfo", EmptyObject)
      [] method = "queryInstant" ->
            Get("/api/v1/query",
                IF Truthy(margs.time) THEN [query |-> margs.query, time |-> margs.time]
                ELSE [query |-> margs.query])
      [] method = "queryRange" ->
            Get("/api/v1/query_range",
                [query |-> margs.query, start |-> margs.start, end |-> margs.end,
                 step |-> margs.step])
      [] method = "getTargets" -> Get("/api/v1/targets", EmptyObject)
      [] method = "getMetrics" -> Get("/api/v1/label/__name__/values", EmptyObject)
      [] method = "getBuildInfo" -> Get("/api/v1/status/buildinfo", EmptyObject)
      [] method = "getRuntimeInfo" -> Get("/api/v1/status/runtimeinfo", EmptyObject)
      [] method = "getConfig" -> Get("/api/v1/status/config", EmptyObject)
      [] method = "getFlags" -> Get("/api/v1/status/flags", EmptyObject)
      [] method = "getTsdbStatus" -> Get("/api/v1/status/tsdb", EmptyObject)

\* the text of the Error thrown on an envelope whose status is not "success"
NotSuccessText(method) ==
    CASE method = "queryInstant" -> "Query failed: "
      [] method = "queryRange" -> "Query failed: "
      [] method = "getTargets" -> "Failed to get targets: "
      [] method = "getMetrics" -> "Failed to get metrics: "
      [] method = "getBuildInfo" -> "Failed to get build info: "
      [] method = "getRuntimeInfo" -> "Failed to get runtime info: "
      [] method = "getConfig" -> "Failed to get config: "
      [] method = "getFlags" -> "Failed to get flags: "
      [] method = "getTsdbStatus" -> "Failed to get TSDB status: "

\* what the method returns of the envelope's data
Unwrap(method, data) == IF method = "getConfig" THEN data.yaml ELSE data

\* queryInstant, getBuildInfo, ...: try { get; check status; return data }
\* catch (error) { this.handleError(error) }
EnvelopeMethod(method, http) ==
    LET got == AxiosGet(http) IN
    IF ~got.resolved THEN Err(handleError(got.error))
    ELSE IF Field(got.data, "status") # "success"
    THEN Err(handleError(PlainError(<<NotSuccessText(method), Field(got.data, "error")>>)))
    ELSE Ok(Unwrap(method, got.data.data))

\* response.data.data?.version
BuildInfoVersion(body) ==
    IF "data" \in DOMAIN body THEN Field(body.data, "version") ELSE Undefined

\* testConnection that gives up when the build-info GET rejects
testConnectionNoFallback(mstate, http) ==
    LET got == AxiosGet(http) IN
    IF got.resolved
    THEN MethodDone(Ok([status |-> "connected", version |-> BuildInfoVersion(got.data)]))
    ELSE MethodDone(Err(handleError(got.error)))

\* testConnection: build info first, the query `up` when that GET rejects,
\* and the first error through handleError when the second rejects too
testConnection(mstate, http) ==
    LET got == AxiosGet(http) IN
    IF mstate.step = "buildinfo"
    THEN IF got.resolved
         THEN MethodDone(Ok([status |-> "connected", version |-> BuildInfoVersion(got.data)]))
         ELSE MethodGet(Get("/api/v1/query", [query |-> <<"up">>]),
                        [step |-> "query", error |-> got.error])
    ELSE IF got.resolved
         THEN MethodDone(Ok([status |-> "connected"]))
         ELSE MethodDone(Err(handleError(mstate.error)))

\* MethodStep that issues the GET of a method a second time when it fails
MethodStepRetry(method, mstate, http) ==
    IF method # "testConnection" /\ ~AxiosGet(http).resolved /\ mstate.step = "buildinfo"
    THEN MethodGet(pending, [step |-> "retry"])
    ELSE IF method = "testConnection" THEN testConnection(mstate, http)
    ELSE MethodDone(EnvelopeMethod(method, http))

\* the continuation of a client method at the outcome of its pending GET
MethodStep(method, mstate, http) ==
    IF method = "testConnection" THEN testConnection(mstate, http)
    ELSE MethodDone(EnvelopeMethod(method, http))

(***************************************************************************)
(* Operation catalog: groups, input schemas                                *)
(***************************************************************************)
healthTools == {"test_connection", "list_targets", "get_target_health"}
queryTools == {"query_instant", "query_range", "query_windows_exporter",
               "query_blackbox_exporter", "query_node_exporter"}
metricsTools == {"list_metrics", "get_metric_metadata", "get_label_values", "find_series"}
alertsTools == {"list_alerts", "get_alert_rules", "get_alert_history", "get_recording_rules"}
statusTools == {"get_prometheus_status", "get_tsdb_status"}

\* { ...healthTools, ...queryTools, ...metricsTools, ...alertsTools, ...statusTools }
ComposeCatalog ==
    healthTools \cup queryTools \cup metricsTools \cup alertsTools \cup statusTools

\* properties every object inherits, which `name in allTools` finds too
ObjectPrototypeKeys == {"toString", "constructor"}

\* one property of a z.object: z.string() or z.enum(), .optional(), .default()
Prop(key, required, enum, default) ==
    [key |-> key, required |-> required, enum |-> enum, default |-> default,
     type |-> "string"]
AnyString == {}

\* a JSON number, and a JSON string given where a number is declared
Number(n) == [num |-> n]
Quoted(text) == [str |-> text]

\* z.number().optional().default(n)
NumberProp(key, default) ==
    [key |-> key, required |-> FALSE, enum |-> AnyString, default |-> Number(default),
     type |-> "number"]

\* the property declares .default(): the two number properties of the
\* catalog do, a string property does when its default is not undefined
HasDefault(prop) == prop.type = "number" \/ prop.default # Undefined

TargetHealths == {"up", "down", "unknown", "all"}
AlertStates == {"firing", "pending", "all"}
RuleStates == {"firing", "pending", "inactive", "all"}

WindowsCategories == {"cpu", "memory", "disk", "network", "services", "all"}
NodeCategories == {"cpu", "memory", "disk", "network", "load", "filesystem", "all"}
StatusIncludes == {"all", "build", "runtime", "config", "flags"}

inputSchema(tool) ==
    CASE tool = "test_connection" -> <<>>
      [] tool = "query_instant" ->
            <<Prop("query", TRUE, AnyString, Undefined),
              Prop("time", FALSE, AnyString, Undefined)>>
      [] tool = "query_windows_exporter" ->
            <<Prop("instance", TRUE, AnyString, Undefined),
              Prop("metric", TRUE, WindowsCategories, Undefined),
              Prop("timeRange", FALSE, AnyString, "5m")>>
      [] tool = "query_node_exporter" ->
            <<Prop("instance", TRUE, AnyString, Undefined),
              Prop("metric", TRUE, NodeCategories, Undefined),
              Prop("timeRange", FALSE, AnyString, "5m")>>
      [] tool = "get_prometheus_status" ->
            <<Prop("include", FALSE, StatusIncludes, "all")>>
      [] tool = "list_targets" ->
            <<Prop("health", FALSE, TargetHealths, "all")>>
      [] tool = "get_target_health" ->
            <<Prop("job", FALSE, AnyString, Undefined),
              Prop("instance", FALSE, AnyString, Undefined)>>
      [] tool = "query_range" ->
            <<Prop("query", TRUE, AnyString, Undefined),
              Prop("start", TRUE, AnyString, Undefined),
              Prop("end", FALSE, AnyString, Undefined),
              Prop("step", FALSE, AnyString, "1m")>>
      [] tool = "query_blackbox_exporter" ->
            <<Prop("target", FALSE, AnyString, Undefined),
              Prop("module", FALSE, AnyString, Undefined)>>
      [] tool = "list_metrics" ->
            <<Prop("search", FALSE, AnyString, Undefined),
              NumberProp("limit", 100)>>
      [] tool = "get_metric_metadata" ->
            <<Prop("metric", FALSE, AnyString, Undefined)>>
      [] tool = "get_label_values" ->
            <<Prop("label", TRUE, AnyString, Undefined)>>
      [] tool = "find_series" ->
            <<Prop("match", TRUE, AnyString, Undefined),
              Prop("start", FALSE, AnyString, Undefined),
              Prop("end", FALSE, AnyString, Undefined)>>
      [] tool = "get_tsdb_status" ->
            <<NumberProp("limit", 10)>>
      [] tool = "list_alerts" ->
            <<Prop("state", FALSE, AlertStates, "all")>>
      [] tool = "get_alert_rules" ->
            <<Prop("group", FALSE, AnyString, Undefined),
              Prop("state", FALSE, RuleStates, "all")>>
      [] tool = "get_alert_history" ->
            <<Prop("alertname", FALSE, AnyString, Undefined),
              Prop("timeRange", FALSE, AnyString, "1h")>>
      [] tool = "get_recording_rules" ->
            <<Prop("group", FALSE, AnyString, Undefined)>>

\* PropIssues of a schema that declares its enums as plain strings
PropIssuesAnyString(prop, raw) ==
    IF prop.key \in DOMAIN raw THEN <<>>
    ELSE IF prop.required THEN <<"invalid_type", prop.key, "Required">> ELSE <<>>

\* the issues of one property, in the order zod reports them
PropIssues(prop, raw) ==
    IF prop.key \in DOMAIN raw
    THEN IF prop.type = "number"
         THEN IF DOMAIN raw[prop.key] = {"num"}
              THEN <<>> ELSE <<"invalid_type", prop.key, "Expected number">>
         ELSE IF prop.enum = AnyString \/ raw[prop.key] \in prop.enum
         THEN <<>> ELSE <<"invalid_enum_value", prop.key>>
    ELSE IF prop.required THEN <<"invalid_type", prop.key, "Required">> ELSE <<>>

RECURSIVE SchemaIssues(_, _, _)
SchemaIssues(schema, raw, k) ==
    IF k > Len(schema) THEN <<>>
    ELSE PropIssues(schema[k], raw) \o SchemaIssues(schema, raw, k + 1)

\* schema.safeParse(args): an omitted argument object is not an object;
\* unknown keys are stripped and defaults filled in
safeParse(schema, given, raw) ==
    LET issues == IF given THEN SchemaIssues(schema, raw, 1)
                  ELSE <<"invalid_type", "Required">>
        keys == {schema[k].key : k \in {i \in DOMAIN schema :
                     schema[i].key \in DOMAIN raw \/ HasDefault(schema[i])}}
        default(key) == (CHOOSE k \in DOMAIN schema : schema[k].key = key)
    IN  IF issues # <<>> THEN [success |-> FALSE, message |-> issues]
        ELSE [success |-> TRUE,
              data |-> [key \in keys |-> IF key \in DOMAIN raw THEN raw[key]
                                         ELSE schema[default(key)].default]]

\* the keys of each group, in the order they are declared
Declared ==
    <<<<"test_connection", "list_targets", "get_target_health">>,
      <<"query_instant", "query_range", "query_windows_exporter", "query_blackbox_exporter", "query_node_exporter">>,
      <<"list_metrics", "get_metric_metadata", "get_label_values", "find_series">>,
      <<"list_alerts", "get_alert_rules", "get_alert_history", "get_recording_rules">>,
      <<"get_prometheus_status", "get_tsdb_status">>>>

RECURSIVE Flatten(_)
Flatten(lists) == IF lists = <<>> THEN <<>> ELSE Head(lists) \o Flatten(Tail(lists))

description(tool) ==
    CASE tool = "test_connection" ->
            "Test connection to Prometheus and verify it is accessible"
      [] tool = "list_targets" ->
            "List all scrape targets and their health status (up/down)"
      [] tool = "get_target_health" ->
            "Get health status of a specific target by job name and/or instance"
      [] tool = "query_instant" ->
            "Execute a PromQL instant query to get the current value of metrics"
      [] tool = "query_range" ->
            "Execute a PromQL range query to get time series data over a time range"
      [] tool = "query_windows_exporter" ->
            "Query common Windows metrics from windows_exporter (CPU, memory, disk, etc.)"
      [] tool = "query_blackbox_exporter" ->
            "Query probe results from blackbox_exporter for endpoint monitoring"
      [] tool = "query_node_exporter" ->
            "Query common Linux metrics from node_exporter (CPU, memory, disk, network, load)"
      [] tool = "list_metrics" ->
            "List all available metric names in Prometheus"
      [] tool = "get_metric_metadata" ->
            "Get metadata (type, help text) for a specific metric or all metrics"
      [] tool = "get_label_values" ->
            "Get all values for a specific label (e.g., all job names, all instances)"
      [] tool = "find_series" ->
            "Find time series matching a label selector"
      [] tool = "list_alerts" ->
            "List all currently firing or pending alerts"
      [] tool = "get_alert_rules" ->
            "Get all alerting rules and their current states"
      [] tool = "get_alert_history" ->
            "Query alert state changes over time using ALERTS metric"
      [] tool = "get_recording_rules" ->
            "Get all recording rules (pre-computed queries) and their current states"
      [] tool = "get_prometheus_status" ->
            "Get Prometheus server status including version, runtime info, and configuration"
      [] tool = "get_tsdb_status" ->
            "Get Prometheus TSDB (Time Series Database) statistics including cardinality and memory usage"

\* zodToJsonSchema of one property (the text of .describe() is left out)
PropertySchema(prop) ==
    LET type == IF prop.enum # AnyString THEN [type |-> "string", enum |-> prop.enum]
                ELSE [type |-> prop.type]
    IN  IF HasDefault(prop) THEN type @@ [default |-> prop.default] ELSE type

\* zodToJsonSchema(tool.inputSchema) without its $schema
JsonSchema(schema) ==
    LET required == SelectSeq(schema, LAMBDA prop : prop.required)
        base == [type |-> "object",
                 properties |-> [key \in {schema[i].key : i \in DOMAIN schema} |->
                                   PropertySchema(schema[CHOOSE i \in DOMAIN schema :
                                                            schema[i].key = key])],
                 additionalProperties |-> FALSE]
    IN  IF required = <<>> THEN base
        ELSE base @@ [required |-> [i \in DOMAIN required |-> required[i].key]]

(***************************************************************************)
(* Exporter helpers: the sub-queries of each category                      *)
(***************************************************************************)
WindowsCpu(instance, range) ==
    <<
      [name |-> "cpuUsage",
       query |-> <<"100 - (avg by (instance) (rate(windows_cpu_time_total{instance=\"",
                   instance,
                   "\",mode=\"idle\"}[",
                   range,
                   "])) * 100)">>]>>

WindowsMemory(instance, range) ==
    <<
      [name |-> "memoryUsedBytes",
       query |-> <<"windows_os_physical_memory_free_bytes{instance=\"",
                   instance,
                   "\"}">>],
      [name |-> "memoryTotalBytes",
       query |-> <<"windows_cs_physical_memory_bytes{instance=\"",
                   instance,
                   "\"}">>],
      [name |-> "memoryUsedPercent",
       query |-> <<"100 - (windows_os_physical_memory_free_bytes{instance=\"",
                   instance,
                   "\"} / windows_cs_physical_memory_bytes{instance=\"",
                   instance,
                   "\"} * 100)">>]>>

WindowsDisk(instance, range) ==
    <<
      [name |-> "diskFreeBytes",
       query |-> <<"windows_logical_disk_free_bytes{instance=\"",
                   instance,
                   "\"}">>],
      [name |-> "diskUsedPercent",
       query |-> <<"100 - (windows_logical_disk_free_bytes{instance=\"",
                   instance,
                   "\"} / windows_logical_disk_size_bytes{instance=\"",
                   instance,
                   "\"} * 100)">>]>>

WindowsNetwork(instance, range) ==
    <<
      [name |-> "networkBytesReceived",
       query |-> <<"rate(windows_net_bytes_received_total{instance=\"",
                   instance,
                   "\"}[",
                   range,
                   "])">>],
      [name |-> "networkBytesSent",
       query |-> <<"rate(windows_net_bytes_sent_total{instance=\"",
                   instance,
                   "\"}[",
                   range,
                   "])">>]>>

WindowsServices(instance, range) ==
    <<
      [name |-> "servicesRunning",
       query |-> <<"windows_service_state{instance=\"",
                   instance,
                   "\",state=\"running\"}">>],
      [name |-> "servicesStopped",
       query |-> <<"windows_service_state{instance=\"",
                   instance,
                   "\",state=\"stopped\"}">>]>>

NodeCpu(instance, range) ==
    <<
      [name |-> "cpuUsagePercent",
       query |-> <<"100 - (avg by (instance) (rate(node_cpu_seconds_total{instance=\"",
                   instance,
                   "\",mode=\"idle\"}[",
                   range,
                   "])) * 100)">>],
      [name |-> "cpuUserPercent",
       query |-> <<"avg by (instance) (rate(node_cpu_seconds_total{instance=\"",
                   instance,
                   "\",mode=\"user\"}[",
                   range,
                   "])) * 100">>],
      [name |-> "cpuSystemPercent",
       query |-> <<"avg by (instance) (rate(node_cpu_seconds_total{instance=\"",
                   instance,
                   "\",mode=\"system\"}[",
                   range,
                   "])) * 100">>],
      [name |-> "cpuIowaitPercent",
       query |-> <<"avg by (instance) (rate(node_cpu_seconds_total{instance=\"",
                   instance,
                   "\",mode=\"iowait\"}[",
                   range,
                   "])) * 100">>]>>

NodeMemory(instance, range) ==
    <<
      [name |-> "memoryTotalBytes",
       query |-> <<"node_memory_MemTotal_bytes{instance=\"",
                   instance,
                   "\"}">>],
      [name |-> "memoryAvailableBytes",
       query |-> <<"node_memory_MemAvailable_bytes{instance=\"",
                   instance,
                   "\"}">>],
      [name |-> "memoryUsedPercent",
       query |-> <<"100 - (node_memory_MemAvailable_bytes{instance=\"",
                   instance,
                   "\"} / node_memory_MemTotal_bytes{instance=\"",
                   instance,
                   "\"} * 100)">>],
      [name |-> "swapUsedPercent",
       query |-> <<"100 - (node_memory_SwapFree_bytes{instance=\"",
                   instance,
                   "\"} / node_memory_SwapTotal_bytes{instance=\"",
                   instance,
                   "\"} * 100)">>]>>

NodeDisk(instance, range) ==
    <<
      [name |-> "diskReadBytesPerSec",
       query |-> <<"rate(node_disk_read_bytes_total{instance=\"",
                   instance,
                   "\"}[",
                   range,
                   "])">>],
      [name |-> "diskWriteBytesPerSec",
       query |-> <<"rate(node_disk_written_bytes_total{instance=\"",
                   instance,
                   "\"}[",
                   range,
                   "])">>],
      [name |-> "diskIOUtilization",
       query |-> <<"rate(node_disk_io_time_seconds_total{instance=\"",
                   instance,
                   "\"}[",
                   range,
                   "]) * 100">>]>>

NodeFilesystem(instance, range) ==
    <<
      [name |-> "filesystemUsedPercent",
       query |-> <<"100 - (node_filesystem_avail_bytes{instance=\"",
                   instance,
                   "\",fstype!~\"tmpfs|overlay\"} / node_filesystem_size_bytes{instance=\"",
                   instance,
                   "\",fstype!~\"tmpfs|overlay\"} * 100)">>],
      [name |-> "filesystemAvailableBytes",
       query |-> <<"node_filesystem_avail_bytes{instance=\"",
                   instance,
                   "\",fstype!~\"tmpfs|overlay\"}">>]>>

NodeNetwork(instance, range) ==
    <<
      [name |-> "networkReceiveBytesPerSec",
       query |-> <<"rate(node_network_receive_bytes_total{instance=\"",
                   instance,
                   "\",device!~\"lo|veth.*|docker.*|br-.*\"}[",
                   range,
                   "])">>],
      [name |-> "networkTransmitBytesPerSec",
       query |-> <<"rate(node_network_transmit_bytes_total{instance=\"",
                   instance,
                   "\",device!~\"lo|veth.*|docker.*|br-.*\"}[",
                   range,
                   "])">>],
      [name |-> "networkReceiveErrors",
       query |-> <<"rate(node_network_receive_errs_total{instance=\"",
                   instance,
                   "\"}[",
                   range,
                   "])">>],
      [name |-> "networkTransmitErrors",
       query |-> <<"rate(node_network_transmit_errs_total{instance=\"",
                   instance,
                   "\"}[",
                   range,
                   "])">>]>>

NodeLoad(instance, range) ==
    <<
      [name |-> "load1",
       query |-> <<"node_load1{instance=\"",
                   instance,
                   "\"}">>],
      [name |-> "load5",
       query |-> <<"node_load5{instance=\"",
                   instance,
                   "\"}">>],
      [name |-> "load15",
       query |-> <<"node_load15{instance=\"",
                   instance,
                   "\"}">>],
      [name |-> "cpuCount",
       query |-> <<"count(node_cpu_seconds_total{instance=\"",
                   instance,
                   "\",mode=\"idle\"})">>]>>

\* queries[name] = query, for each entry of a block in turn
RECURSIVE Assign(_, _)
Assign(queries, block) ==
    IF block = <<>> THEN queries
    ELSE LET e == Head(block)
             at == {i \in DOMAIN queries : queries[i].name = e.name}
         IN  Assign(IF at = {} THEN Append(queries, e)
                    ELSE [i \in DOMAIN queries |-> IF i \in at THEN e ELSE queries[i]],
                    Tail(block))

\* Object.entries(queries) of query_windows_exporter
WindowsQueries(instance, range, metric) ==
    LET q1 == IF metric = "cpu" \/ metric = "all"
              THEN Assign(<<>>, WindowsCpu(instance, range)) ELSE <<>>
        q2 == IF metric = "memory" \/ metric = "all"
              THEN Assign(q1, WindowsMemory(instance, range)) ELSE q1
        q3 == IF metric = "disk" \/ metric = "all"
              THEN Assign(q2, WindowsDisk(instance, range)) ELSE q2
        q4 == IF metric = "network" \/ metric = "all"
              THEN Assign(q3, WindowsNetwork(instance, range)) ELSE q3
    IN  IF metric = "services" \/ metric = "all"
        THEN Assign(q4, WindowsServices(instance, range)) ELSE q4

\* NodeQueries whose disk block is also taken for "filesystem"
NodeQueriesDiskOnFilesystem(instance, range, metric) ==
    LET q1 == IF metric = "cpu" \/ metric = "all"
              THEN Assign(<<>>, NodeCpu(instance, range)) ELSE <<>>
        q2 == IF metric = "memory" \/ metric = "all"
              THEN Assign(q1, NodeMemory(instance, range)) ELSE q1
        q3 == IF metric = "disk" \/ metric = "filesystem" \/ metric = "all"
              THEN Assign(q2, NodeDisk(instance, range)) ELSE q2
        q4 == IF metric = "filesystem" \/ metric = "all"
              THEN Assign(q3, NodeFilesystem(instance, range)) ELSE q3
        q5 == IF metric = "network" \/ metric = "all"
              THEN Assign(q4, NodeNetwork(instance, range)) ELSE q4
    IN  IF metric = "load" \/ metric = "all"
        THEN Assign(q5, NodeLoad(instance, range)) ELSE q5

\* Object.entries(queries) of query_node_exporter
NodeQueries(instance, range, metric) ==
    LET q1 == IF metric = "cpu" \/ metric = "all"
              THEN Assign(<<>>, NodeCpu(instance, range)) ELSE <<>>
        q2 == IF metric = "memory" \/ metric = "all"
              THEN Assign(q1, NodeMemory(instance, range)) ELSE q1
        q3 == IF metric = "disk" \/ metric = "all"
              THEN Assign(q2, NodeDisk(instance, range)) ELSE q2
        q4 == IF metric = "filesystem" \/ metric = "all"
              THEN Assign(q3, NodeFilesystem(instance, range)) ELSE q3
        q5 == IF metric = "network" \/ metric = "all"
              THEN Assign(q4, NodeNetwork(instance, range)) ELSE q4
    IN  IF metric = "load" \/ metric = "all"
        THEN Assign(q5, NodeLoad(instance, range)) ELSE q5

(***************************************************************************)
(* Handlers.  A handler runs until it awaits a client method (Call), returns *)
(* (Return) or throws (Throw); h holds its locals across the await.        *)
(***************************************************************************)
Call(method, margs, h) == [kind |-> "call", method |-> method, margs |-> margs, h |-> h]
Return(value) == [kind |-> "return", value |-> value]
Throw(error) == [kind |-> "throw", error |-> error]

\* new Date(seconds * 1000).toISOString()
ISOString(seconds) == [isoOfMillis |-> seconds * 1000]

\* { error: error instanceof Error ? error.message : fallback }
InlineError(error) == [error |-> error.message]

\* ---- test_connection
TestConnectionStart == Call("testConnection", EmptyObject, EmptyObject)

TestConnectionResume(result) ==
    IF result.ok
    THEN Return([status |-> result.value.status,
                 version |-> Field(result.value, "version"),
                 url |-> ProcessEnv.PROMETHEUS_URL])
    ELSE Throw(result.error)

\* ---- query_instant
\* the text of a PromQL query is the sequence of its pieces (a template
\* literal lists several); the query of the caller is one piece
QueryInstantStart(a) ==
    Call("queryInstant", [query |-> <<a.query>>, time |-> Field(a, "time")], EmptyObject)

QueryInstantResume(result) ==
    LET shape(r) == [metric |-> r.metric, timestamp |-> ISOString(r.value[1]),
                     value |-> r.value[2]]
    IN  IF result.ok
        THEN Return([resultType |-> result.value.resultType,
                     resultCount |-> Len(result.value.result),
                     results |-> [i \in DOMAIN result.value.result |->
                                    shape(result.value.result[i])]])
        ELSE Throw(result.error)

\* ---- query_windows_exporter, query_node_exporter
\* for (const [name, query] of Object.entries(queries)): the next iteration
ExporterLoop(h) ==
    IF h.i > Len(h.queries)
    THEN Return([instance |-> h.instance, timeRange |-> h.range, metrics |-> h.results])
    ELSE Call("queryInstant", [query |-> h.queries[h.i].query, time |-> Undefined], h)

\* ExporterCollect that leaves the loop at the first sub-query that fails
ExporterCollectBreak(h, result) ==
    LET shape(r) == [labels |-> r.metric, value |-> r.value[2]]
        entry == IF result.ok
                 THEN [values |-> [i \in DOMAIN result.value.result |->
                                     shape(result.value.result[i])]]
                 ELSE InlineError(result.error)
    IN  [h EXCEPT !.results = (h.queries[h.i].name :> entry) @@ @,
                  !.i = IF result.ok THEN @ + 1 ELSE Len(h.queries) + 1]

\* the body of the loop after the await: results[name] = values or { error }
ExporterCollect(h, result) ==
    LET shape(r) == [labels |-> r.metric, value |-> r.value[2]]
        entry == IF result.ok
                 THEN [values |-> [i \in DOMAIN result.value.result |->
                                     shape(result.value.result[i])]]
                 ELSE InlineError(result.error)
    IN  [h EXCEPT !.results = (h.queries[h.i].name :> entry) @@ @, !.i = @ + 1]

ExporterStart(queries, a) ==
    ExporterLoop([instance |-> a.instance,
                  range |-> OrElse(Field(a, "timeRange"), "5m"),
                  queries |-> queries, i |-> 1, results |-> EmptyObject])

WindowsExporterStart(a) ==
    ExporterStart(WindowsQueries(a.instance, OrElse(Field(a, "timeRange"), "5m"), a.metric), a)

NodeExporterStart(a) ==
    ExporterStart(NodeQueries(a.instance, OrElse(Field(a, "timeRange"), "5m"), a.metric), a)

\* ExporterResume without the try/catch inside the loop
ExporterResumeAbort(h, result) ==
    IF result.ok THEN ExporterLoop(ExporterCollect(h, result)) ELSE Throw(result.error)

ExporterResume(h, result) == ExporterLoop(ExporterCollect(h, result))

\* ---- get_prometheus_status
StatusKeys == <<"build", "runtime", "config", "flags">>
StatusMethods == <<"getBuildInfo", "getRuntimeInfo", "getConfig", "getFlags">>

\* the k-th `if (include === 'all' || include === <key>)` and those after it
RECURSIVE StatusFrom(_, _)
StatusFrom(h, k) ==
    IF k > Len(StatusKeys) THEN Return(h.result)
    ELSE IF h.include = "all" \/ h.include = StatusKeys[k]
    THEN Call(StatusMethods[k], EmptyObject, [h EXCEPT !.k = k])
    ELSE StatusFrom(h, k + 1)

\* the first 2000 characters of a longer configuration text
ConfigView(yaml) ==
    IF YamlLength(yaml) > 2000
    THEN [yaml |-> <<[substring |-> yaml, from |-> 0, to |-> 2000], "\n... (truncated)">>,
          fullLength |-> YamlLength(yaml)]
    ELSE [yaml |-> yaml]

StatusCollect(h, result) ==
    LET key == StatusKeys[h.k]
        entry == IF ~result.ok THEN InlineError(result.error)
                 ELSE IF key = "config" THEN ConfigView(result.value)
                 ELSE result.value
    IN  [h EXCEPT !.result = (key :> entry) @@ @]

StatusStart(a) ==
    StatusFrom([include |-> OrElse(Field(a, "include"), "all"),
                result |-> EmptyObject, k |-> 0], 1)

\* StatusResume without the try/catch around each fetch
StatusResumeAbort(h, result) ==
    IF result.ok THEN StatusFrom(StatusCollect(h, result), h.k + 1)
    ELSE Throw(result.error)

StatusResume(h, result) == StatusFrom(StatusCollect(h, result), h.k + 1)

\* a step of a handler that has read the clock: its readings, in order
Timed(step, reads) == step @@ [reads |-> reads]

Reads(step) == IF "reads" \in DOMAIN step THEN step.reads ELSE <<>>

\* ---- get_alert_history
InvalidTimeRange ==
    PlainError(<<"Invalid time range format. Use formats like \"1h\", \"24h\", \"7d\"">>)

\* HistoryStep whose boundaries belong to the coarser step
HistoryStepFromBoundary(ms) ==
    LET s1 == "1m"
        s2 == IF ~Greater(Num(24 * 60 * 60 * 1000), ms) THEN "5m" ELSE s1
    IN  IF ~Greater(Num(7 * 24 * 60 * 60 * 1000), ms) THEN "15m" ELSE s2

\* let step = '1m'; if (ms > 24h) step = '5m'; if (ms > 7d) step = '15m'
HistoryStep(ms) ==
    LET s1 == "1m"
        s2 == IF Greater(ms, Num(24 * 60 * 60 * 1000)) THEN "5m" ELSE s1
    IN  IF Greater(ms, Num(7 * 24 * 60 * 60 * 1000)) THEN "15m" ELSE s2

\* AlertsQuery that leaves the alert name out
AlertsQueryUnfiltered(a) == <<"ALERTS">>

\* let query = 'ALERTS'; if (args.alertname) query = `ALERTS{alertname="..."}`
AlertsQuery(a) ==
    IF Truthy(Field(a, "alertname"))
    THEN <<"ALERTS{alertname=\"", a.alertname, "\"}">>
    ELSE <<"ALERTS">>

AlertHistoryStart(a, clock) ==
    LET range == OrElse(Field(a, "timeRange"), "1h")
        match == RelativeMatch(range)
    IN  IF ~match.matched THEN Throw(InvalidTimeRange)
        ELSE LET ms == Lookback(match)
                 date == DateBefore(clock[1], ms)
             IN  IF ~date.valid THEN Timed(Throw(InvalidTimeValue), <<clock[1]>>)
                 ELSE LET start == toISOString(date)
                          end == toISOString(Date(FALSE, clock[2]))
                          query == AlertsQuery(a)
                          step == HistoryStep(ms)
                      IN  Timed(Call("queryRange",
                                     [query |-> query, start |-> start, end |-> end,
                                      step |-> step],
                                     [start |-> start, end |-> end, step |-> step]),
                                <<clock[1], clock[2]>>)

Null == "null"

AlertHistoryResume(h, result) ==
    LET n(r) == Len(r.values)
        shape(r) == [alertname |-> Field(r.metric, "alertname"),
                     severity |-> Field(r.metric, "severity"),
                     instance |-> Field(r.metric, "instance"),
                     job |-> Field(r.metric, "job"),
                     stateChanges |-> n(r),
                     firstSeen |-> IF n(r) > 0 THEN ISOString(r.values[1][1]) ELSE Null,
                     lastSeen |-> IF n(r) > 0 THEN ISOString(r.values[n(r)][1]) ELSE Null,
                     labels |-> r.metric]
    IN  IF result.ok
        THEN Return([timeRange |-> [start |-> h.start, end |-> h.end, step |-> h.step],
                     alertCount |-> Len(result.value.result),
                     alerts |-> [i \in DOMAIN result.value.result |->
                                   shape(result.value.result[i])]])
        ELSE Throw(result.error)

\* ---- query_range
QueryRangeStart(a, clock) ==
    LET match == RelativeMatch(a.start)
        date == DateBefore(clock[1], Lookback(match))
        reads == IF match.matched THEN <<clock[1]>> ELSE <<>>
        more == ~Truthy(Field(a, "end"))
        all == IF more THEN Append(reads, clock[Len(reads) + 1]) ELSE reads
    IN  IF match.matched /\ ~date.valid THEN Timed(Throw(InvalidTimeValue), reads)
        ELSE LET start == IF match.matched THEN toISOString(date) ELSE a.start
                 end == IF more THEN toISOString(Date(FALSE, all[Len(all)])) ELSE a.end
                 step == OrElse(Field(a, "step"), "1m")
             IN  Timed(Call("queryRange",
                            [query |-> <<a.query>>, start |-> start, end |-> end,
                             step |-> step],
                            [start |-> start, end |-> end, step |-> step]),
                       all)

QueryRangeResume(h, result) ==
    LET point(v) == [timestamp |-> ISOString(v[1]), value |-> v[2]]
        shape(r) == [metric |-> r.metric, valueCount |-> Len(r.values),
                     values |-> [j \in DOMAIN r.values |-> point(r.values[j])]]
    IN  IF result.ok
        THEN Return([resultType |-> result.value.resultType,
                     resultCount |-> Len(result.value.result),
                     timeRange |-> [start |-> h.start, end |-> h.end, step |-> h.step],
                     results |-> [i \in DOMAIN result.value.result |->
                                    shape(result.value.result[i])]])
        ELSE Throw(result.error)

\* ---- list_targets
HealthCount(targets, health) == Len(SelectSeq(targets, LAMBDA t : t.health = health))

TargetSummary(t) ==
    [job |-> t.labels.job, instance |-> t.labels.instance, health |-> t.health,
     lastScrape |-> t.lastScrape, lastScrapeDuration |-> t.lastScrapeDuration,
     lastError |-> OrElse(t.lastError, Null), scrapeUrl |-> t.scrapeUrl]

ListTargetsStart(a) == Call("getTargets", EmptyObject, [health |-> Field(a, "health")])

\* ListTargetsResume whose summary counts the filtered targets
ListTargetsResumeFilteredSummary(h, result) ==
    IF ~result.ok THEN Throw(result.error)
    ELSE LET targets == result.value
             activeTargets ==
                 IF Truthy(h.health) /\ h.health # "all"
                 THEN SelectSeq(targets.activeTargets, LAMBDA t : t.health = h.health)
                 ELSE targets.activeTargets
         IN  Return([summary |-> [total |-> Len(activeTargets),
                                  up |-> HealthCount(activeTargets, "up"),
                                  down |-> HealthCount(activeTargets, "down"),
                                  unknown |-> HealthCount(activeTargets, "unknown"),
                                  dropped |-> Len(targets.droppedTargets)],
                     activeTargets |-> [i \in DOMAIN activeTargets |->
                                          TargetSummary(activeTargets[i])]])

ListTargetsResume(h, result) ==
    IF ~result.ok THEN Throw(result.error)
    ELSE LET targets == result.value
             activeTargets ==
                 IF Truthy(h.health) /\ h.health # "all"
                 THEN SelectSeq(targets.activeTargets, LAMBDA t : t.health = h.health)
                 ELSE targets.activeTargets
         IN  Return([summary |-> [total |-> Len(targets.activeTargets),
                                  up |-> HealthCount(targets.activeTargets, "up"),
                                  down |-> HealthCount(targets.activeTargets, "down"),
                                  unknown |-> HealthCount(targets.activeTargets, "unknown"),
                                  dropped |-> Len(targets.droppedTargets)],
                     activeTargets |-> [i \in DOMAIN activeTargets |->
                                          TargetSummary(activeTargets[i])]])

\* ---- get_target_health
MissingFilter == PlainError(<<"At least one of job or instance must be specified">>)

\* TargetHealthStart that asks the backend whatever the filters
TargetHealthStartUnchecked(a) ==
    Call("getTargets", EmptyObject,
         [job |-> Field(a, "job"), instance |-> Field(a, "instance")])

TargetHealthStart(a) ==
    IF ~Truthy(Field(a, "job")) /\ ~Truthy(Field(a, "instance")) THEN Throw(MissingFilter)
    ELSE Call("getTargets", EmptyObject,
              [job |-> Field(a, "job"), instance |-> Field(a, "instance")])

TargetDetail(t) ==
    TargetSummary(t) @@ [scrapeInterval |-> t.scrapeInterval, labels |-> t.labels]

TargetHealthResume(h, result) ==
    IF ~result.ok THEN Throw(result.error)
    ELSE LET keep(t) == /\ ~(Truthy(h.job) /\ t.labels.job # h.job)
                        /\ ~(Truthy(h.instance) /\ t.labels.instance # h.instance)
             filtered == SelectSeq(result.value.activeTargets, keep)
         IN  IF Len(filtered) = 0
             THEN Return([found |-> FALSE, message |-> "No matching targets found"])
             ELSE Return([found |-> TRUE,
                          targets |-> [i \in DOMAIN filtered |-> TargetDetail(filtered[i])]])

\* ---- list_metrics
LowerChar(c) ==
    CASE c = "A" -> "a" [] c = "B" -> "b" [] c = "C" -> "c" [] c = "D" -> "d"
      [] c = "E" -> "e" [] c = "F" -> "f" [] c = "G" -> "g" [] c = "H" -> "h"
      [] c = "I" -> "i" [] c = "J" -> "j" [] c = "K" -> "k" [] c = "L" -> "l"
      [] c = "M" -> "m" [] c = "N" -> "n" [] c = "O" -> "o" [] c = "P" -> "p"
      [] c = "Q" -> "q" [] c = "R" -> "r" [] c = "S" -> "s" [] c = "T" -> "t"
      [] c = "U" -> "u" [] c = "V" -> "v" [] c = "W" -> "w" [] c = "X" -> "x"
      [] c = "Y" -> "y" [] c = "Z" -> "z" [] OTHER -> c

RECURSIVE toLowerCase(_)
toLowerCase(text) ==
    IF text = "" THEN "" ELSE LowerChar(Char(text, 1)) \o toLowerCase(Tail(text))

\* text.includes(part)
Includes(text, part) ==
    \/ part = ""
    \/ \E i \in 1..(Len(text) - Len(part) + 1) : SubSeq(text, i, i + Len(part) - 1) = part

\* array.slice(0, end)
Slice(array, end) ==
    LET to == IF end < 0 THEN (IF Len(array) + end < 0 THEN 0 ELSE Len(array) + end)
              ELSE IF end > Len(array) THEN Len(array) ELSE end
    IN  SubSeq(array, 1, to)

ListMetricsStart(a) ==
    Call("getMetrics", EmptyObject, [search |-> Field(a, "search"), limit |-> a.limit.num])

ListMetricsResume(h, result) ==
    IF ~result.ok THEN Throw(result.error)
    ELSE LET metrics == result.value
             searchLower == toLowerCase(h.search)
             filtered == IF Truthy(h.search)
                         THEN SelectSeq(metrics,
                                        LAMBDA m : Includes(toLowerCase(m), searchLower))
                         ELSE metrics
             limit == IF h.limit # 0 THEN h.limit ELSE 100
             limited == Slice(filtered, limit)
         IN  Return([total |-> Len(metrics), matchingCount |-> Len(filtered),
                     returnedCount |-> Len(limited), metrics |-> limited])

\* ---- get_tsdb_status
TsdbStatusStart(a) == Call("getTsdbStatus", EmptyObject, [limit |-> a.limit.num])

\* tsdb.list?.slice(0, limit) || []
Top(tsdb, list, limit) == IF list \in DOMAIN tsdb THEN Slice(tsdb[list], limit) ELSE <<>>

TsdbStatusResume(h, result) ==
    IF ~result.ok THEN Throw(result.error)
    ELSE LET tsdb == result.value
             limit == IF h.limit # 0 THEN h.limit ELSE 10
             minTime == Date(FALSE, tsdb.headStats.minTime)
             maxTime == Date(FALSE, tsdb.headStats.maxTime)
             usage(l) == [name |-> l.name, bytes |-> l.value,
                          humanReadable |-> formatBytes(l.value)]
             memory == Top(tsdb, "memoryInBytesByLabelName", limit)
         IN  IF ~minTime.valid \/ ~maxTime.valid THEN Throw(InvalidTimeValue)
             ELSE Return([headStats |->
                             [numSeries |-> tsdb.headStats.numSeries,
                              numLabelPairs |-> tsdb.headStats.numLabelPairs,
                              chunkCount |-> tsdb.headStats.chunkCount,
                              minTime |-> toISOString(minTime),
                              maxTime |-> toISOString(maxTime)],
                          topMetricsBySeriesCount |->
                             Top(tsdb, "seriesCountByMetricName", limit),
                          topLabelsByValueCount |->
                             Top(tsdb, "labelValueCountByLabelName", limit),
                          topLabelsByMemoryUsage |->
                             [i \in DOMAIN memory |-> usage(memory[i])],
                          topLabelValuePairs |->
                             Top(tsdb, "seriesCountByLabelValuePair", limit)])

\* ---- query_blackbox_exporter
RECURSIVE DropZeros(_)
DropZeros(text) ==
    IF text # "" /\ Char(text, Len(text)) = "0" THEN DropZeros(SubSeq(text, 1, Len(text) - 1))
    ELSE IF text # "" /\ Char(text, Len(text)) = "." THEN SubSeq(text, 1, Len(text) - 1)
    ELSE text

\* parseFloat(text) of a sample value as JSON.stringify writes it: the
\* decimal without its trailing zeros, null for NaN and the infinities
parseFloat(text) ==
    IF text \in {"NaN", "+Inf", "-Inf"} THEN Null
    ELSE IF Includes(text, ".") THEN DropZeros(text) ELSE text

\* `{${filters.join(',')}}` when there are filters
ProbeSelector(a) ==
    LET target == IF Truthy(Field(a, "target")) THEN <<<<"target=\"", a.target, "\"">>>> ELSE <<>>
        module == IF Truthy(Field(a, "module")) THEN <<<<"module=\"", a.module, "\"">>>> ELSE <<>>
        filters == target \o module
    IN  IF filters = <<>> THEN <<>>
        ELSE IF Len(filters) = 1 THEN <<"{">> \o filters[1] \o <<"}">>
        ELSE <<"{">> \o filters[1] \o <<",">> \o filters[2] \o <<"}">>

BlackboxStart(a) ==
    Call("queryInstant", [query |-> <<"probe_success">> \o ProbeSelector(a), time |-> Undefined],
         [stage |-> "success", selector |-> ProbeSelector(a)])

\* durationResult.result.find(d => same instance and same target)
FindDuration(durations, r) ==
    LET same == SelectSeq(durations, LAMBDA d : /\ d.metric.instance = r.metric.instance
                                                /\ d.metric.target = r.metric.target)
    IN  IF same = <<>> THEN Null ELSE parseFloat(same[1].value[2])

\* BlackboxResume without the try/catch around the duration query
BlackboxResumeAbort(h, result) ==
    IF ~result.ok THEN Throw(result.error)
    ELSE IF h.stage = "success"
    THEN Call("queryInstant",
              [query |-> <<"probe_duration_seconds">> \o h.selector, time |-> Undefined],
              [stage |-> "duration", selector |-> h.selector, successResult |-> result.value])
    ELSE LET probes == [i \in DOMAIN h.successResult.result |->
                          LET r == h.successResult.result[i] IN
                          [target |-> r.metric.target, instance |-> r.metric.instance,
                           module |-> r.metric.module, job |-> r.metric.job,
                           success |-> r.value[2] = "1",
                           durationSeconds |-> FindDuration(result.value.result, r)]]
         IN  Return([summary |-> [total |-> Len(probes),
                                  up |-> Len(SelectSeq(probes, LAMBDA p : p.success)),
                                  down |-> Len(SelectSeq(probes, LAMBDA p : ~p.success))],
                     probes |-> probes])

BlackboxResume(h, result) ==
    IF h.stage = "success"
    THEN IF ~result.ok THEN Throw(result.error)
         ELSE Call("queryInstant",
                   [query |-> <<"probe_duration_seconds">> \o h.selector, time |-> Undefined],
                   [stage |-> "duration", selector |-> h.selector,
                    successResult |-> result.value])
    ELSE LET durationResult == IF result.ok THEN result.value ELSE [result |-> <<>>]
             probes == [i \in DOMAIN h.successResult.result |->
                          LET r == h.successResult.result[i] IN
                          [target |-> r.metric.target, instance |-> r.metric.instance,
                           module |-> r.metric.module, job |-> r.metric.job,
                           success |-> r.value[2] = "1",
                           durationSeconds |-> FindDuration(durationResult.result, r)]]
         IN  Return([summary |-> [total |-> Len(probes),
                                  up |-> Len(SelectSeq(probes, LAMBDA p : p.success)),
                                  down |-> Len(SelectSeq(probes, LAMBDA p : ~p.success))],
                     probes |-> probes])

\* tool.handler(prometheusClient, validatedArgs), up to its first await
HandlerStart(tool, a, clock) ==
    CASE tool = "test_connection" -> TestConnectionStart
      [] tool = "query_instant" -> QueryInstantStart(a)
      [] tool = "query_windows_exporter" -> WindowsExporterStart(a)
      [] tool = "query_node_exporter" -> NodeExporterStart(a)
      [] tool = "get_prometheus_status" -> StatusStart(a)
      [] tool = "get_alert_history" -> AlertHistoryStart(a, clock)
      [] tool = "query_range" -> QueryRangeStart(a, clock)
      [] tool = "list_targets" -> ListTargetsStart(a)
      [] tool = "get_target_health" -> TargetHealthStart(a)
      [] tool = "list_metrics" -> ListMetricsStart(a)
      [] tool = "get_tsdb_status" -> TsdbStatusStart(a)
      [] tool = "query_blackbox_exporter" -> BlackboxStart(a)

\* the handler's continuation when the awaited client method settles
HandlerResume(tool, h, result) ==
    CASE tool = "test_connection" -> TestConnectionResume(result)
      [] tool = "query_instant" -> QueryInstantResume(result)
      [] tool = "query_windows_exporter" -> ExporterResume(h, result)
      [] tool = "query_node_exporter" -> ExporterResume(h, result)
      [] tool = "get_prometheus_status" -> StatusResume(h, result)
      [] tool = "get_alert_history" -> AlertHistoryResume(h, result)
      [] tool = "query_range" -> QueryRangeResume(h, result)
      [] tool = "list_targets" -> ListTargetsResume(h, result)
      [] tool = "get_target_health" -> TargetHealthResume(h, result)
      [] tool = "list_metrics" -> ListMetricsResume(h, result)
      [] tool = "get_tsdb_status" -> TsdbStatusResume(h, result)
      [] tool = "query_blackbox_exporter" -> BlackboxResume(h, result)

(***************************************************************************)
(* Dispatcher: the CallToolRequestSchema handler                           *)
(***************************************************************************)
TextContent(text) == <<[type |-> "text", text |-> text]>>

NoResponse == EmptyObject
NoOutcome == [kind |-> "none"]

\* UnknownTool that leaves the error flag out
UnknownToolUnflagged(n) == [content |-> TextContent(<<"Unknown tool: ", n>>)]

UnknownTool(n) == [content |-> TextContent(<<"Unknown tool: ", n>>), isError |-> TRUE]

InvalidArguments(message) ==
    [content |-> TextContent(<<"Invalid arguments: ">> \o message), isError |-> TRUE]

\* ToolResult that flags the handler's result as an error
ToolResultFlagged(result) ==
    [content |-> TextContent(JSONStringify(result)), isError |-> TRUE]

\* return { content: [{ type: 'text', text: JSON.stringify(result, null, 2) }] }
ToolResult(result) == [content |-> TextContent(JSONStringify(result))]

\* ToolError without the try/catch around the handler's invocation
ToolErrorRethrown(n, error) == [response |-> NoResponse, uncaught |-> TRUE]

\* catch (error) { return { ..., text: `Error executing ${name}: ${message}`, isError: true } }
ToolError(n, error) ==
    [response |-> [content |-> TextContent(<<"Error executing ", n, ": ">> \o error.message),
                   isError |-> TRUE],
     uncaught |-> FALSE]

NoFrame == EmptyObject
NoRequest == EmptyObject

IsError(r) == "isError" \in DOMAIN r /\ r.isError
ResponseText(r) == r.content[1].text

\* name in allTools
InCatalog(n) == n \in allTools \/ n \in ObjectPrototypeKeys

\* the tool-call handler from its entry to the handler's invocation:
\* the answer it returns by itself, the error it throws inside its try, or
\* the validated arguments it invokes tool.handler with
Dispatch(n, given, raw) ==
    IF ~InCatalog(n) THEN [kind |-> "respond", response |-> UnknownTool(n)]
    ELSE IF n \notin allTools
    THEN \* allTools[name] is an inherited function: no inputSchema, no handler
         [kind |-> "throw", error |-> PlainError(<<"tool.handler is not a function">>)]
    ELSE LET parseResult == safeParse(inputSchema(n), given, raw) IN
         IF ~parseResult.success
         THEN [kind |-> "respond", response |-> InvalidArguments(parseResult.message)]
         ELSE [kind |-> "invoke", validatedArgs |-> parseResult.data]

\* the handler has returned or thrown: the tool-call handler's answer
Finish(n, step) ==
    /\ pc' = "done"
    /\ frame' = NoFrame
    /\ pending' = NoRequest
    /\ outcome' = step
    /\ IF step.kind = "throw"
       THEN /\ response' = ToolError(n, step.error).response
            /\ uncaught' = ToolError(n, step.error).uncaught
       ELSE /\ response' = ToolResult(step.value)
            /\ uncaught' = FALSE

\* the handler awaits a client method: its first GET goes out
Await(step) ==
    /\ pc' = "await"
    /\ frame' = [method |-> step.method, margs |-> step.margs,
                 mstate |-> [step |-> "buildinfo"], https |-> <<>>, h |-> step.h]
    /\ pending' = MethodRequest(step.method, step.margs)
    /\ UNCHANGED <<outcome, response, uncaught>>

Advance(n, step) == IF step.kind = "call" THEN Await(step) ELSE Finish(n, step)

(***************************************************************************)
(* Tool calls the transport delivers                                       *)
(***************************************************************************)
Instances == {"host:9100"}

ToolCall(n, given, raw) == [name |-> n, given |-> given, raw |-> raw]

\* texts of the form <int><unit>: around the two step boundaries, with
\* leading zeros, zero, and beyond the range of a Date
RelativeTexts == {"1h", "2h", "24h", "25h", "86400s", "86401s", "7d", "8d", "604800s",
                  "604801s", "1w", "2w", "0s", "007m", "99999999999999999w"}
\* texts that are not of that form
OtherTexts == {"abc", "1y", "h", "10", "1.5h", "-1h", " 1h", "1H", "2 hours", "1hh", ""}
AbsoluteTexts == {"2024-01-01T00:00:00Z", "1700000000", "yesterday", "1H", " 1h", ""}
Limits == {0 - 200, 0 - 1, 0, 1, 2, 100, 101, 200}

ToolCalls ==
         {ToolCall(n, TRUE, EmptyObject) : n \in {"no_such_tool", "toString"}}
    \cup {ToolCall("test_connection", g, EmptyObject) : g \in BOOLEAN}
    \cup {ToolCall("test_connection", TRUE, [verbose |-> "yes"])}
    \cup {ToolCall("query_instant", TRUE, r) :
            r \in {EmptyObject, [query |-> "up"], [query |-> "up", time |-> "1700000"]}}
    \cup {ToolCall("query_windows_exporter", TRUE, [instance |-> i, metric |-> m]) :
            i \in Instances, m \in (WindowsCategories \ {"all"}) \cup {"load"}}
    \cup {ToolCall("query_windows_exporter", TRUE, r) :
            r \in {[metric |-> "cpu"],
                   [instance |-> "host:9100", metric |-> "network", timeRange |-> "1h"]}}
    \cup {ToolCall("query_node_exporter", TRUE, [instance |-> i, metric |-> m]) :
            i \in Instances, m \in (NodeCategories \ {"all"}) \cup {"services"}}
    \cup {ToolCall("query_node_exporter", TRUE, r) :
            r \in {[instance |-> "host:9100"],
                   [instance |-> "host:9100", metric |-> "filesystem", timeRange |-> ""]}}
    \cup {ToolCall("get_prometheus_status", g, EmptyObject) : g \in BOOLEAN}
    \cup {ToolCall("get_prometheus_status", TRUE, [include |-> x]) :
            x \in StatusIncludes \cup {"tsdb"}}
    \cup {ToolCall(n, FALSE, EmptyObject) : n \in ComposeCatalog}
    \cup {ToolCall("get_alert_history", TRUE, EmptyObject)}
    \cup {ToolCall("get_alert_history", TRUE, [timeRange |-> t]) :
            t \in RelativeTexts \cup OtherTexts}
    \cup {ToolCall("get_alert_history", TRUE, r) :
            r \in {[alertname |-> "HighCPU", timeRange |-> "2h"],
                   [alertname |-> "", timeRange |-> "8d"],
                   [alertname |-> "HighCPU", timeRange |-> "2 hours"]}}
    \cup {ToolCall("query_range", TRUE, [query |-> "up", start |-> t]) :
            t \in {"2h", "90s", "2w", "99999999999999999w"} \cup AbsoluteTexts}
    \cup {ToolCall("query_range", TRUE, r) :
            r \in {[query |-> "up"], [start |-> "1h"],
                   [query |-> "up", start |-> "1h", end |-> "2024-01-02T00:00:00Z"],
                   [query |-> "up", start |-> "1h", end |-> ""],
                   [query |-> "up", start |-> "2024-01-01T00:00:00Z",
                    end |-> "2024-01-02T00:00:00Z", step |-> "15s"],
                   [query |-> "up", start |-> "1d", step |-> ""]}}
    \cup {ToolCall("list_targets", TRUE, EmptyObject)}
    \cup {ToolCall("list_targets", TRUE, [health |-> x]) : x \in TargetHealths \cup {"sick"}}
    \cup {ToolCall("get_target_health", TRUE, r) :
            r \in {EmptyObject, [job |-> "node"], [instance |-> "host:9100"],
                   [job |-> "node", instance |-> "host:9100"],
                   [job |-> "node", instance |-> "host:8080"], [job |-> "web"],
                   [job |-> ""], [job |-> "", instance |-> ""],
                   [job |-> "", instance |-> "host:9100"]}}
    \cup {ToolCall("list_metrics", TRUE, EmptyObject)}
    \cup {ToolCall("list_metrics", TRUE, [limit |-> Number(n)]) : n \in Limits}
    \cup {ToolCall("list_metrics", TRUE, r) :
            r \in {[search |-> "NODE"], [search |-> "node", limit |-> Number(2)],
                   [search |-> "", limit |-> Number(1)], [search |-> "zzz"],
                   [search |-> "up", limit |-> Number(0)], [limit |-> Quoted("5")]}}
    \cup {ToolCall("query_blackbox_exporter", TRUE, r) :
            r \in {EmptyObject, [target |-> "https://example.com"],
                   [target |-> "https://example.com", module |-> "http_2xx"],
                   [target |-> "", module |-> "icmp"]}}
    \cup {ToolCall("get_tsdb_status", TRUE, r) :
            r \in {EmptyObject, [limit |-> Number(3)], [limit |-> Number(0)]}}

\* the exporter helpers asked for every category at once
AllCategoryCalls ==
    {ToolCall(n, TRUE, [instance |-> i, metric |-> "all"]) :
        n \in {"query_windows_exporter", "query_node_exporter"}, i \in Instances}

\* the calls two clients send at the same time: a helper that fills a result
\* map over two sub-queries, a time range, a capped list, the probe with its
\* fallback, and a name outside the catalog
ConcurrentCalls ==
    {ToolCall("query_windows_exporter", TRUE, [instance |-> "host:9100", metric |-> "disk"]),
     ToolCall("get_alert_history", TRUE, [timeRange |-> "2h"]),
     ToolCall("list_metrics", TRUE, [limit |-> Number(2)]),
     ToolCall("test_connection", TRUE, EmptyObject),
     ToolCall("no_such_tool", TRUE, EmptyObject)}

(***************************************************************************)
(* State machine                                                           *)
(***************************************************************************)
\* a tool call nobody has sent yet
IdleCall ==
    [pc |-> "idle", name |-> "", hasArgs |-> FALSE, args |-> EmptyObject,
     validatedArgs |-> EmptyObject, handlerRan |-> FALSE, frame |-> NoFrame,
     pending |-> NoRequest, httpLog |-> <<>>, clientLog |-> <<>>, outcome |-> NoOutcome,
     response |-> NoResponse, uncaught |-> FALSE, clockLog |-> <<>>]

\* the tool call the event loop is running
ThisCall ==
    [pc |-> pc, name |-> name, hasArgs |-> hasArgs, args |-> args,
     validatedArgs |-> validatedArgs, handlerRan |-> handlerRan, frame |-> frame,
     pending |-> pending, httpLog |-> httpLog, clientLog |-> clientLog,
     outcome |-> outcome, response |-> response, uncaught |-> uncaught,
     clockLog |-> clockLog]

Init ==
    /\ allTools = ComposeCatalog
    /\ config = loadConfig
    /\ pc = "idle"
    /\ name = ""
    /\ hasArgs = FALSE
    /\ args = EmptyObject
    /\ validatedArgs = EmptyObject
    /\ handlerRan = FALSE
    /\ frame = NoFrame
    /\ pending = NoRequest
    /\ httpLog = <<>>
    /\ clientLog = <<>>
    /\ outcome = NoOutcome
    /\ response = NoResponse
    /\ uncaught = FALSE
    /\ clockLog = <<>>
    /\ tools = <<>>
    /\ other = IdleCall

\* a tools/call request arrives: lookup, validation, and the handler up to
\* its first await
CallTool(call, clock) ==
    /\ pc = "idle"
    /\ name' = call.name
    /\ hasArgs' = call.given
    /\ args' = call.raw
    /\ httpLog' = <<>>
    /\ clientLog' = <<>>
    /\ LET d == Dispatch(call.name, call.given, call.raw) IN
       CASE d.kind = "respond" ->
              /\ validatedArgs' = EmptyObject
              /\ handlerRan' = FALSE
              /\ pc' = "done"
              /\ response' = d.response
              /\ clockLog' = <<>>
              /\ UNCHANGED <<frame, pending, outcome, uncaught>>
         [] d.kind = "throw" ->
              /\ validatedArgs' = IF call.given THEN call.raw ELSE EmptyObject
              /\ handlerRan' = FALSE
              /\ clockLog' = <<>>
              /\ Finish(call.name, d)
         [] d.kind = "invoke" ->
              LET step == HandlerStart(call.name, d.validatedArgs, clock) IN
              /\ validatedArgs' = d.validatedArgs
              /\ handlerRan' = TRUE
              /\ clockLog' = Reads(step)
              /\ Advance(call.name, step)
    /\ UNCHANGED <<allTools, config, tools, other>>

\* the data the backend has for the pending GET: instant queries are answered
\* with the samples of what they select
Series ==
    IF pending.path # "/api/v1/query" THEN SuccessData(pending.path)
    ELSE IF name # "query_blackbox_exporter" THEN {VectorData}
    ELSE IF frame.h.stage = "success" THEN ProbeSuccessDatas
    ELSE ProbeDurationDatas

NumFailures == Cardinality({i \in DOMAIN httpLog : httpLog[i].http \in AllFailures})

\* the pending GET settles; the client method and the handler run on to
\* the next GET or to the answer of the call
HttpRespond(path, http) ==
    /\ pc = "await"
    /\ pending.path = path
    /\ \/ http \in Successes(path) /\ http.body.data \in Series
       \/ http \in Failures(path) /\ NumFailures < MaxFailures
    /\ httpLog' = Append(httpLog, [request |-> pending, http |-> http])
    /\ LET m == MethodStep(frame.method, frame.mstate, http)
           https == Append(frame.https, http)
       IN  IF ~m.done
           THEN /\ pending' = m.request
                /\ frame' = [frame EXCEPT !.mstate = m.mstate, !.https = https]
                /\ UNCHANGED <<pc, clientLog, outcome, response, uncaught>>
           ELSE /\ clientLog' = Append(clientLog,
                        [method |-> frame.method, https |-> https, result |-> m.result])
                /\ Advance(name, HandlerResume(name, frame.h, m.result))
    /\ UNCHANGED <<allTools, config, name, hasArgs, args, validatedArgs, handlerRan,
                   clockLog, tools, other>>

\* a tools/list request arrives: for (const [name, tool] of
\* Object.entries(allTools)) tools.push({ name, description, inputSchema })
ListTools ==
    /\ pc = "idle"
    /\ pc' = "listed"
    /\ tools' = LET entries == SelectSeq(Flatten(Declared), LAMBDA n : n \in allTools) IN
                [i \in DOMAIN entries |->
                    [name |-> entries[i], description |-> description(entries[i]),
                     inputSchema |-> JsonSchema(inputSchema(entries[i]))]]
    /\ UNCHANGED <<allTools, config, name, hasArgs, args, validatedArgs, handlerRan,
                   frame, pending, httpLog, clientLog, outcome, response, uncaught,
                   clockLog, other>>

\* the transport has written the answer; the server waits for the next request
SendResponse ==
    /\ pc \in {"done", "listed"}
    /\ pc' = "idle"
    /\ name' = ""
    /\ hasArgs' = FALSE
    /\ args' = EmptyObject
    /\ validatedArgs' = EmptyObject
    /\ handlerRan' = FALSE
    /\ httpLog' = <<>>
    /\ clientLog' = <<>>
    /\ outcome' = NoOutcome
    /\ response' = NoResponse
    /\ uncaught' = FALSE
    /\ clockLog' = <<>>
    /\ tools' = <<>>
    /\ UNCHANGED <<allTools, config, frame, pending, other>>

\* Resume with the answer held in a module-level variable the calls share
ResumeSharedResponse ==
    /\ pc \in {"idle", "await", "done"}
    /\ pc # "idle" \/ other.pc # "idle"
    /\ other' = ThisCall
    /\ pc' = other.pc
    /\ name' = other.name
    /\ hasArgs' = other.hasArgs
    /\ args' = other.args
    /\ validatedArgs' = other.validatedArgs
    /\ handlerRan' = other.handlerRan
    /\ frame' = other.frame
    /\ pending' = other.pending
    /\ httpLog' = other.httpLog
    /\ clientLog' = other.clientLog
    /\ outcome' = other.outcome
    /\ uncaught' = other.uncaught
    /\ clockLog' = other.clockLog
    /\ UNCHANGED <<allTools, config, tools, response>>

\* the handler of this call is suspended at an await (or has not started, or
\* has answered): the event loop turns to the other call, whose request
\* arrives or whose awaited GET settles next; each call keeps its own locals
Resume ==
    /\ pc \in {"idle", "await", "done"}
    /\ pc # "idle" \/ other.pc # "idle"
    /\ other' = ThisCall
    /\ pc' = other.pc
    /\ name' = other.name
    /\ hasArgs' = other.hasArgs
    /\ args' = other.args
    /\ validatedArgs' = other.validatedArgs
    /\ handlerRan' = other.handlerRan
    /\ frame' = other.frame
    /\ pending' = other.pending
    /\ httpLog' = other.httpLog
    /\ clientLog' = other.clientLog
    /\ outcome' = other.outcome
    /\ response' = other.response
    /\ uncaught' = other.uncaught
    /\ clockLog' = other.clockLog
    /\ UNCHANGED <<allTools, config, tools>>

Next ==
    \/ \E call \in ToolCalls, clock \in Clocks : CallTool(call, clock)
    \/ \E path \in Paths : \E http \in Successes(path) \cup Failures(path) :
          HttpRespond(path, http)
    \/ ListTools
    \/ SendResponse

Spec == Init /\ [][Next]_vars

\* the same server, also asked for the "all" category of the exporter helpers
\* (10 and 21 sub-queries a call: a state space some sixty times that of Spec)
NextFull ==
    \/ \E call \in ToolCalls \cup AllCategoryCalls, clock \in Clocks : CallTool(call, clock)
    \/ \E path \in Paths : \E http \in Successes(path) \cup Failures(path) :
          HttpRespond(path, http)
    \/ ListTools
    \/ SendResponse

SpecFull == Init /\ [][NextFull]_vars

\* every GET settles: axios resolves or rejects it within its 30 s timeout
Settle == \E path \in Paths : \E http \in Successes(path) \cup Failures(path) :
              HttpRespond(path, http)

SpecLive == Init /\ [][Next]_vars /\ WF_vars(Settle)

\* the same server with two tool calls in progress at the same time, the
\* event loop resuming either one at its await
NextConcurrent ==
    \/ \E call \in ConcurrentCalls, clock \in Clocks : CallTool(call, clock)
    \/ \E path \in Paths : \E http \in Successes(path) \cup Failures(path) :
          HttpRespond(path, http)
    \/ Resume
    \/ SendResponse

SpecConcurrent == Init /\ [][NextConcurrent]_vars

(***************************************************************************)
(* Properties                                                              *)
(***************************************************************************)
Done == pc = "done"
Text == ResponseText(response)

\* C1 -- Dispatcher containment: when the handler of a catalog operation,
\* invoked with validated arguments, throws (by itself or through a client
\* method), the call returns a result with isError set whose text is
\* "Error executing <name>: <thrown message>"; no exception ever leaves the
\* tool-call handler.
C1_Containment ==
    /\ ~uncaught
    /\ (Done /\ handlerRan /\ outcome.kind = "throw") =>
          /\ name \in allTools
          /\ IsError(response)
          /\ Len(response.content) = 1
          /\ Text = <<"Error executing ", name, ": ">> \o outcome.error.message

C1_Witness ==
    /\ Done /\ handlerRan /\ outcome.kind = "throw"
    /\ name = "query_instant"
    /\ Contains(Text, "Cannot connect to Prometheus at ")
    /\ Contains(Text, "query_instant")

\* C2 -- Unknown operation: a call whose name is no key of the catalog is
\* answered at once with an isError result whose text names the operation;
\* nothing is thrown, no handler runs and no HTTP request is issued.
C2_UnknownOperation ==
    (pc \in {"await", "done"} /\ name \notin allTools) =>
        /\ Done
        /\ IsError(response)
        /\ Contains(Text, name)
        /\ ~uncaught
        /\ ~handlerRan
        /\ httpLog = <<>> /\ pending = NoRequest /\ clientLog = <<>>

C2_Witness ==
    /\ Done /\ name = "no_such_tool"
    /\ Text = <<"Unknown tool: ", "no_such_tool">>
    /\ IsError(response)

\* a property that is there holds a value of another type than declared,
\* or none of the values of its enum
Mistyped(prop, raw) ==
    /\ prop.key \in DOMAIN raw
    /\ IF prop.type = "number" THEN "num" \notin DOMAIN raw[prop.key]
       ELSE prop.enum # AnyString /\ raw[prop.key] \notin prop.enum

\* what an input schema asks of a raw argument object: it is an object,
\* every required property is there and every property that is there holds
\* a value of its type, for an enum one of the enum's values
Satisfies(schema, given, raw) ==
    /\ given
    /\ \A k \in DOMAIN schema :
          /\ schema[k].required => schema[k].key \in DOMAIN raw
          /\ ~Mistyped(schema[k], raw)

Violations(schema, raw) ==
    {schema[k].key : k \in {i \in DOMAIN schema :
        \/ schema[i].required /\ schema[i].key \notin DOMAIN raw
        \/ Mistyped(schema[i], raw)}}

\* C3 -- Validation precedes handling: the handler of a catalog operation
\* runs only when the raw arguments satisfy its input schema, and receives
\* them with the schema's defaults filled in; otherwise the answer is the
\* "Invalid arguments" failure naming each violation, no handler runs and no
\* request is issued.
C3_ValidationFirst ==
    (pc \in {"await", "done"} /\ name \in allTools) =>
        LET schema == inputSchema(name) IN
        IF Satisfies(schema, hasArgs, args)
        THEN /\ handlerRan
             /\ \A k \in DOMAIN schema :
                   LET key == schema[k].key IN
                   /\ key \in DOMAIN args => Field(validatedArgs, key) = args[key]
                   /\ key \notin DOMAIN args =>
                        Field(validatedArgs, key) = schema[k].default
        ELSE /\ ~handlerRan
             /\ Done
             /\ IsError(response)
             /\ Text[1] = "Invalid arguments: "
             /\ hasArgs => \A key \in Violations(schema, args) : Contains(Text, key)
             /\ ~hasArgs => Contains(Text, "Required")
             /\ httpLog = <<>> /\ pending = NoRequest /\ clientLog = <<>>

C3_Witness ==
    /\ Done /\ handlerRan
    /\ name = "query_node_exporter"
    /\ "timeRange" \notin DOMAIN args
    /\ validatedArgs.timeRange = "5m"

\* a GET succeeded: a response arrived and its status is 2xx
HttpOk(http) == http.kind = "response" /\ http.status \in 200..299

\* the response carries the envelope {status:"error", error, errorType}
ErrorEnvelopeIn(http) == http.kind = "response" /\ Field(http.body, "status") = "error"

Unreachable(text) == <<"Cannot connect to Prometheus at ", config.prometheusUrl, ": ", text>>

\* C4 -- Envelope invariant (as claimed): every client method, the probe
\* included, that receives {status:"error", error:x, errorType:y} raises an
\* error whose message carries x and y and returns no data, whatever the
\* HTTP status of that response.
C4_EnvelopeInvariant ==
    \A i \in DOMAIN clientLog : \A j \in DOMAIN clientLog[i].https :
        LET http == clientLog[i].https[j]
            result == clientLog[i].result
        IN  ErrorEnvelopeIn(http) =>
                /\ ~result.ok
                /\ Contains(result.error.message, http.body.error)
                /\ Contains(result.error.message, http.body.errorType)

\* C5 (as claimed) -- every client method one of whose requests failed before
\* any response raises the "Cannot connect" error naming the base URL and
\* that transport error, and returns nothing.
C5_UnreachableEveryMethod ==
    \A i \in DOMAIN clientLog :
        LET e == clientLog[i] IN
        (\E j \in DOMAIN e.https : e.https[j].kind = "transport") =>
            /\ ~e.result.ok
            /\ \E j \in DOMAIN e.https :
                  /\ e.https[j].kind = "transport"
                  /\ e.result.error.message = Unreachable(e.https[j].message)

\* C5 (amended) -- every client method but the connectivity probe issues one
\* request and, when it fails before any response, raises "Cannot connect to
\* Prometheus at <base URL>: <transport error>" and returns nothing.  The
\* probe raises it, with the build-info request's transport error, when the
\* build-info request failed that way and the fallback request failed too;
\* when the fallback succeeds it returns status "connected".
C5_Unreachable ==
    \A i \in DOMAIN clientLog :
        LET e == clientLog[i] IN
        IF e.method # "testConnection"
        THEN /\ Len(e.https) = 1
             /\ e.https[1].kind = "transport" =>
                   /\ ~e.result.ok
                   /\ e.result.error.message = Unreachable(e.https[1].message)
        ELSE (e.https[1].kind = "transport") =>
                /\ Len(e.https) = 2
                /\ ~HttpOk(e.https[2]) =>
                      /\ ~e.result.ok
                      /\ e.result.error.message = Unreachable(e.https[1].message)
                /\ HttpOk(e.https[2]) =>
                      /\ e.result.ok
                      /\ e.result.value.status = "connected"

C5_Witness ==
    /\ Done /\ name = "get_prometheus_status"
    /\ \E i \in DOMAIN clientLog :
          /\ clientLog[i].method = "getFlags"
          /\ clientLog[i].https[1] = [kind |-> "transport",
                                      message |-> "timeout of 30000ms exceeded"]
          /\ ~clientLog[i].result.ok
          /\ Contains(clientLog[i].result.error.message, "http://prometheus:9090")
          /\ Contains(clientLog[i].result.error.message, "timeout of 30000ms exceeded")

\* the requests this call has issued so far, in order
Issued ==
    [i \in 1..(Len(httpLog) + IF pc = "await" THEN 1 ELSE 0) |->
        IF i <= Len(httpLog) THEN httpLog[i].request ELSE pending]

Connected == ~IsError(response) /\ Text.json.status = "connected"

\* C6 -- Connectivity probe ordering: test_connection issues the build-info
\* request first, the fallback query `up` exactly when the build-info
\* request failed, and nothing after a request that succeeded; it reports
\* "connected" exactly when one of its requests succeeded and fails exactly
\* when both failed; it never issues more than two requests.  (A request
\* succeeds when a response with a 2xx status arrives, and fails otherwise.)
C6_ProbeOrdering ==
    (name = "test_connection" /\ handlerRan) =>
        /\ Len(Issued) \in 1..2
        /\ Issued[1] = Get("/api/v1/status/buildinfo", EmptyObject)
        /\ Len(Issued) = 2 =>
              /\ Issued[2] = Get("/api/v1/query", [query |-> <<"up">>])
              /\ ~HttpOk(httpLog[1].http)
        /\ (httpLog # <<>> /\ ~HttpOk(httpLog[1].http)) => Len(Issued) = 2
        /\ pc = "await" => \A i \in DOMAIN httpLog : ~HttpOk(httpLog[i].http)
        /\ Done =>
              /\ Connected <=> \E i \in DOMAIN httpLog : HttpOk(httpLog[i].http)
              /\ IsError(response) <=>
                    /\ Len(httpLog) = 2
                    /\ \A i \in DOMAIN httpLog : ~HttpOk(httpLog[i].http)
              /\ Connected \/ IsError(response)

C6_Witness ==
    /\ Done /\ name = "test_connection" /\ handlerRan
    /\ Len(httpLog) = 2
    /\ ~HttpOk(httpLog[1].http) /\ HttpOk(httpLog[2].http)
    /\ Connected

\* C7 -- Fallback-probe exhaustion (as claimed): whenever both requests of
\* the probe fail, whatever the two kinds of failure, the error raised is
\* "Cannot connect to Prometheus at <base URL>: ..." carrying the error text
\* of a failed request.
C7_ExhaustionUnreachable ==
    \A i \in DOMAIN clientLog :
        LET e == clientLog[i] IN
        (/\ e.method = "testConnection"
         /\ Len(e.https) = 2
         /\ \A j \in DOMAIN e.https : ~HttpOk(e.https[j])) =>
            /\ ~e.result.ok
            /\ \E j \in DOMAIN e.https :
                  e.result.error.message =
                     <<"Cannot connect to Prometheus at ", config.prometheusUrl, ": ">>
                     \o AxiosGet(e.https[j]).error.message

ExporterTools == {"query_windows_exporter", "query_node_exporter"}

\* the sub-queries the exporter helper of this call synthesizes
Synthesized ==
    LET range == OrElse(validatedArgs.timeRange, "5m") IN
    IF name = "query_windows_exporter"
    THEN WindowsQueries(validatedArgs.instance, range, validatedArgs.metric)
    ELSE NodeQueries(validatedArgs.instance, range, validatedArgs.metric)

\* the backend answered with HTTP 2xx and a success envelope
Fetched(http) == HttpOk(http) /\ Field(http.body, "status") = "success"

Metrics == Text.json.metrics

\* C8 -- Exporter-helper partial failure: the sub-queries are issued as
\* instant queries one by one in their order, each once, whatever the
\* outcome of the earlier ones; the call then succeeds with a metrics map
\* holding one key per sub-query: the reshaped samples of a sub-query that
\* succeeded, {error: message} for one that failed -- also when all failed.
C8_PartialFailure ==
    (name \in ExporterTools /\ handlerRan) =>
        \* while the loop runs, the list it iterates; once the call is
        \* answered, the list synthesized anew from the arguments
        LET queries == IF pc = "await" THEN frame.h.queries ELSE Synthesized IN
        /\ Len(Issued) <= Len(queries)
        /\ \A i \in DOMAIN Issued :
              Issued[i] = Get("/api/v1/query", [query |-> queries[i].query])
        /\ pc = "await" => Len(Issued) = Len(httpLog) + 1
        /\ Done =>
              /\ Len(httpLog) = Len(queries)
              /\ outcome.kind = "return"
              /\ ~IsError(response)
              /\ DOMAIN Metrics = {queries[i].name : i \in DOMAIN queries}
              /\ Cardinality(DOMAIN Metrics) = Len(queries)
              /\ \A i \in DOMAIN queries :
                    LET http == httpLog[i].http
                        entry == Metrics[queries[i].name]
                    IN  IF Fetched(http)
                        THEN entry =
                               [values |->
                                  [k \in DOMAIN http.body.data.result |->
                                     [labels |-> http.body.data.result[k].metric,
                                      value |-> http.body.data.result[k].value[2]]]]
                        ELSE /\ DOMAIN entry = {"error"}
                             /\ entry.error = clientLog[i].result.error.message
                             /\ entry.error # <<>>

C8_Witness ==
    /\ Done /\ name = "query_windows_exporter" /\ handlerRan
    /\ validatedArgs.metric = "disk"
    /\ Len(httpLog) = 2
    /\ \A i \in DOMAIN httpLog : ~Fetched(httpLog[i].http)
    /\ ~IsError(response)
    /\ DOMAIN Metrics = {"diskFreeBytes", "diskUsedPercent"}
    /\ \A k \in DOMAIN Metrics : DOMAIN Metrics[k] = {"error"}

Names(block) == {block[i].name : i \in DOMAIN block}

WindowsFamily(c) ==
    CASE c = "cpu" -> {"cpuUsage"}
      [] c = "memory" -> {"memoryUsedBytes", "memoryTotalBytes", "memoryUsedPercent"}
      [] c = "disk" -> {"diskFreeBytes", "diskUsedPercent"}
      [] c = "network" -> {"networkBytesReceived", "networkBytesSent"}
      [] c = "services" -> {"servicesRunning", "servicesStopped"}

NodeFamily(c) ==
    CASE c = "cpu" -> {"cpuUsagePercent", "cpuUserPercent", "cpuSystemPercent",
                       "cpuIowaitPercent"}
      [] c = "memory" -> {"memoryTotalBytes", "memoryAvailableBytes", "memoryUsedPercent",
                          "swapUsedPercent"}
      [] c = "disk" -> {"diskReadBytesPerSec", "diskWriteBytesPerSec", "diskIOUtilization"}
      [] c = "filesystem" -> {"filesystemUsedPercent", "filesystemAvailableBytes"}
      [] c = "network" -> {"networkReceiveBytesPerSec", "networkTransmitBytesPerSec",
                           "networkReceiveErrors", "networkTransmitErrors"}
      [] c = "load" -> {"load1", "load5", "load15", "cpuCount"}

\* the names the exporter helper of this call is to synthesize
ExpectedNames ==
    LET c == validatedArgs.metric IN
    IF name = "query_windows_exporter"
    THEN IF c = "all" THEN UNION {WindowsFamily(d) : d \in WindowsCategories \ {"all"}}
         ELSE WindowsFamily(c)
    ELSE IF c = "all" THEN UNION {NodeFamily(d) : d \in NodeCategories \ {"all"}}
         ELSE NodeFamily(c)

\* C9 -- Exporter-helper category selection: the sub-queries synthesized
\* for a category other than "all" are exactly those of its family, for
\* "all" exactly those of every family of the exporter; the families of one
\* exporter share no name (node exporter "cpu": cpuUsagePercent,
\* cpuUserPercent, cpuSystemPercent, cpuIowaitPercent).
C9_CategorySelection ==
    /\ \A c, d \in WindowsCategories \ {"all"} :
          c # d => WindowsFamily(c) \cap WindowsFamily(d) = {}
    /\ \A c, d \in NodeCategories \ {"all"} :
          c # d => NodeFamily(c) \cap NodeFamily(d) = {}
    /\ (name \in ExporterTools /\ handlerRan) =>
          /\ pc = "await" => Names(frame.h.queries) = ExpectedNames
          /\ Done => DOMAIN Metrics = ExpectedNames

C9_Witness ==
    /\ Done /\ name = "query_node_exporter" /\ handlerRan
    /\ validatedArgs.metric = "all"
    /\ Cardinality(DOMAIN Metrics) = 21
    /\ NodeFamily("cpu") \subseteq DOMAIN Metrics

StatusPathOf(key) ==
    CASE key = "build" -> "/api/v1/status/buildinfo"
      [] key = "runtime" -> "/api/v1/status/runtimeinfo"
      [] key = "config" -> "/api/v1/status/config"
      [] key = "flags" -> "/api/v1/status/flags"

\* the sub-fetches an include selector selects, in order
Selected(include) ==
    SelectSeq(<<"build", "runtime", "config", "flags">>,
              LAMBDA key : include = "all" \/ include = key)

\* C10 -- Status aggregation independence: get_prometheus_status fetches
\* build, runtime, config and flags for include "all" and only x for include
\* x, each once and whatever the outcome of the others; its result has
\* exactly the selected keys, each holding what was fetched or an inline
\* {error}, and the call never fails because a fetch failed.
C10_StatusIndependence ==
    (name = "get_prometheus_status" /\ handlerRan) =>
        LET selected == Selected(validatedArgs.include) IN
        /\ Len(Issued) <= Len(selected)
        /\ \A i \in DOMAIN Issued :
              Issued[i] = Get(StatusPathOf(selected[i]), EmptyObject)
        /\ pc = "await" => Len(Issued) = Len(httpLog) + 1
        /\ Done =>
              /\ Len(httpLog) = Len(selected)
              /\ outcome.kind = "return"
              /\ ~IsError(response)
              /\ DOMAIN Text.json = {selected[i] : i \in DOMAIN selected}
              /\ \A i \in DOMAIN selected :
                    LET http == httpLog[i].http
                        entry == Text.json[selected[i]]
                    IN  IF ~Fetched(http)
                        THEN /\ DOMAIN entry = {"error"}
                             /\ entry.error = clientLog[i].result.error.message
                        ELSE IF selected[i] # "config" THEN entry = http.body.data
                        ELSE IF YamlLength(http.body.data.yaml) <= 2000
                        THEN entry = [yaml |-> http.body.data.yaml]
                        ELSE /\ DOMAIN entry = {"yaml", "fullLength"}
                             /\ entry.fullLength = YamlLength(http.body.data.yaml)

C10_Witness ==
    /\ Done /\ name = "get_prometheus_status" /\ handlerRan
    /\ validatedArgs.include = "all"
    /\ Len(httpLog) = 4
    /\ ~Fetched(httpLog[1].http) /\ Fetched(httpLog[2].http)
    /\ ~Fetched(httpLog[3].http) /\ Fetched(httpLog[4].http)
    /\ ~IsError(response)
    /\ DOMAIN Text.json = {"build", "runtime", "config", "flags"}

InCall == pc \in {"await", "done"}

\* the milliseconds one unit stands for
UnitMillis(unit) ==
    CASE unit = "s" -> Num(1000) [] unit = "m" -> Num(60000) [] unit = "h" -> Num(3600000)
      [] unit = "d" -> Num(86400000) [] unit = "w" -> Num(604800000)

\* int * multiplier[unit] of a text <int><unit>
Millis(text) ==
    Times(parseInt(SubSeq(text, 1, Len(text) - 1)), UnitMillis(Char(text, Len(text))))

\* the text that names the instant now - ms
Before(now, ms) ==
    toISOString([negative |-> Greater(ms, now),
                 magnitude |-> IF Greater(ms, now) THEN Minus(ms, now) ELSE Minus(now, ms)])

RangeQueries == SelectSeq(Issued, LAMBDA r : r.path = "/api/v1/query_range")

\* the relative text a call of get_alert_history or query_range was given
GivenRange == IF name = "get_alert_history" THEN validatedArgs.timeRange ELSE validatedArgs.start

\* C11 -- Relative-duration parsing: whenever get_alert_history (timeRange)
\* or query_range (start) is given a text <int><unit>, unit one of s, m, h,
\* d, w, it reads the clock and issues its range query with the start that
\* names the instant now - int * multiplier[unit].
C11_RelativeDuration ==
    (InCall /\ handlerRan /\ name \in {"get_alert_history", "query_range"}
            /\ GivenRange \in RelativeTexts) =>
        /\ clockLog # <<>>
        /\ Len(RangeQueries) = 1
        /\ RangeQueries[1].params.start = Before(clockLog[1], Millis(GivenRange))

\* some fragment of the text holds the part
Carries(text, part) == \E i \in DOMAIN text : Includes(text[i], part)

\* C12 -- Invalid time expression: get_alert_history given a timeRange that
\* is not of the form <int><unit> aborts with a failure whose message carries
\* that timeRange, and issues no range query.
C12_InvalidTimeExpression ==
    (InCall /\ handlerRan /\ name = "get_alert_history"
            /\ validatedArgs.timeRange \in OtherTexts) =>
        /\ Done
        /\ outcome.kind = "throw"
        /\ IsError(response)
        /\ Issued = <<>>
        /\ Carries(outcome.error.message, validatedArgs.timeRange)
        /\ Carries(Text, validatedArgs.timeRange)

\* the timeRange get_alert_history works with: an empty one stands for "1h"
HistoryRange == IF validatedArgs.timeRange = "" THEN "1h" ELSE validatedArgs.timeRange

\* the step of the coarsening policy
PolicyStep(lookback) ==
    IF ~Greater(lookback, Num(86400000)) THEN "1m"
    ELSE IF ~Greater(lookback, Num(604800000)) THEN "5m"
    ELSE "15m"

\* C13 -- Step-coarsening policy: the step of the range query that
\* get_alert_history issues is "1m" for a lookback of at most 86400000 ms,
\* "5m" for one above that and of at most 604800000 ms, "15m" for one above
\* that.
C13_StepCoarsening ==
    (InCall /\ handlerRan /\ name = "get_alert_history") =>
        \A i \in DOMAIN RangeQueries :
            RangeQueries[i].params.step = PolicyStep(Millis(HistoryRange))

C13_Witness ==
    /\ pc = "await" /\ name = "get_alert_history"
    /\ validatedArgs.timeRange = "604800s"
    /\ Millis(HistoryRange) = Num(604800000)
    /\ pending.params.step = "5m"

\* the text that names an instant read off the clock
Instant(now) == Before(now, <<>>)

\* the alert name of the call, "" when it has none or an empty one
AlertName == IF "alertname" \in DOMAIN validatedArgs THEN validatedArgs.alertname ELSE ""

\* a valid get_alert_history invocation: its arguments passed the schema,
\* its timeRange is an <int><unit> text and now minus its lookback is an
\* instant a Date holds (the lookback is at most 100,000,000 days)
ValidHistory ==
    /\ InCall /\ handlerRan /\ name = "get_alert_history"
    /\ HistoryRange \in RelativeTexts
    /\ ~Greater(Millis(HistoryRange), Times(Num(100000000), Num(86400000)))

BackendTargets == httpLog[1].http.body.data.activeTargets

\* how many of the targets have the health
WithHealth(targets, health) ==
    Cardinality({i \in DOMAIN targets : targets[i].health = health})

\* the listed entry is the summary of the backend's target
Lists(entry, target) ==
    /\ entry.job = target.labels.job
    /\ entry.instance = target.labels.instance
    /\ entry.health = target.health

\* C15 -- list_targets filtering: the summary counts total, up, down and
\* unknown over all active targets of the backend whatever the health filter;
\* the list returned holds exactly the active targets whose health is the
\* filter, in the backend's order, and all of them for the filter "all" and
\* for no filter.
C15_ListTargets ==
    (Done /\ handlerRan /\ name = "list_targets" /\ outcome.kind = "return") =>
        LET filter == validatedArgs.health
            kept == SelectSeq(BackendTargets,
                              LAMBDA t : filter = "all" \/ t.health = filter)
            json == Text.json
        IN  /\ ~IsError(response)
            /\ filter = IF "health" \in DOMAIN args THEN args.health ELSE "all"
            /\ json.summary.total = Len(BackendTargets)
            /\ json.summary.up = WithHealth(BackendTargets, "up")
            /\ json.summary.down = WithHealth(BackendTargets, "down")
            /\ json.summary.unknown = WithHealth(BackendTargets, "unknown")
            /\ Len(json.activeTargets) = Len(kept)
            /\ \A i \in DOMAIN kept : Lists(json.activeTargets[i], kept[i])

C15_Witness ==
    /\ Done /\ handlerRan /\ name = "list_targets" /\ outcome.kind = "return"
    /\ validatedArgs.health = "down"
    /\ WithHealth(BackendTargets, "up") = 2 /\ WithHealth(BackendTargets, "down") = 1
    /\ Text.json.summary = [total |-> 3, up |-> 2, down |-> 1, unknown |-> 0, dropped |-> 0]
    /\ Len(Text.json.activeTargets) = 1
    /\ Text.json.activeTargets[1].health = "down"

\* the filters of a get_target_health call that are there / there and not empty
SuppliedFilters == DOMAIN validatedArgs \cap {"job", "instance"}
NonEmptyFilters == {k \in SuppliedFilters : validatedArgs[k] # ""}

\* get_target_health as claimed, the filters in effect being the given ones
TargetHealthWith(filters) ==
    (InCall /\ handlerRan /\ name = "get_target_health") =>
        IF filters = {}
        THEN /\ Done
             /\ Issued = <<>>
             /\ outcome.kind = "throw"
             /\ outcome.error = MissingFilter
             /\ IsError(response)
        ELSE /\ Len(Issued) = 1
             /\ (Done /\ clientLog[1].result.ok) =>
                   LET matching ==
                           SelectSeq(BackendTargets,
                                     LAMBDA t : \A k \in filters : t.labels[k] = validatedArgs[k])
                       json == Text.json
                   IN  /\ outcome.kind = "return"
                       /\ ~IsError(response)
                       /\ json.found = (matching # <<>>)
                       /\ matching = <<>> => "targets" \notin DOMAIN json
                       /\ matching # <<>> =>
                             /\ Len(json.targets) = Len(matching)
                             /\ \A i \in DOMAIN matching :
                                   /\ Lists(json.targets[i], matching[i])
                                   /\ json.targets[i].labels = matching[i].labels

\* C16 (as claimed) -- get_target_health: with neither job nor instance
\* supplied the call fails with MissingFilter before any request; with one
\* supplied it returns {found:false} when no active target matches every
\* supplied filter, and found:true with exactly the matching targets otherwise.
C16_TargetHealthSupplied == TargetHealthWith(SuppliedFilters)

\* C16 (amended) -- get_target_health: a job or instance that is the empty
\* string counts as not supplied.  With no non-empty filter the call fails
\* with MissingFilter before any request; otherwise it returns {found:false}
\* when no active target matches every non-empty filter, and found:true with
\* exactly the targets matching every non-empty filter otherwise.
C16_TargetHealth == TargetHealthWith(NonEmptyFilters)

C16_Witness ==
    /\ Done /\ handlerRan /\ name = "get_target_health"
    /\ validatedArgs = [job |-> "node", instance |-> "host:8080"]
    /\ outcome.kind = "return"
    /\ Len(BackendTargets) = 3
    /\ Text.json.found = FALSE
    /\ ~IsError(response)

\* the arguments of this call fail the schema of the operation named
ValidationFailed ==
    name \in allTools /\ ~safeParse(inputSchema(name), hasArgs, args).success

\* C17 -- Outbound envelope: every answered tool call carries exactly one
\* text payload; the error flag is set exactly when the name is no catalog
\* entry, the arguments failed validation, or the handler threw; whatever a
\* handler returns, inline sub-query {error} objects and {found:false}
\* included, is serialized as it is and carries no error flag.
C17_OutboundEnvelope ==
    Done =>
        /\ ~uncaught
        /\ DOMAIN response \subseteq {"content", "isError"}
        /\ Len(response.content) = 1
        /\ DOMAIN response.content[1] = {"type", "text"}
        /\ response.content[1].type = "text"
        /\ IsError(response) <=>
              \/ name \notin allTools
              \/ ValidationFailed
              \/ handlerRan /\ outcome.kind = "throw"
        /\ (handlerRan /\ outcome.kind = "return") =>
              /\ "isError" \notin DOMAIN response
              /\ Text = JSONStringify(outcome.value)

C17_Witness ==
    /\ Done /\ handlerRan /\ name = "query_node_exporter"
    /\ outcome.kind = "return"
    /\ \E k \in DOMAIN outcome.value.metrics :
          DOMAIN outcome.value.metrics[k] = {"error"}
    /\ \E k \in DOMAIN outcome.value.metrics :
          "error" \notin DOMAIN outcome.value.metrics[k]
    /\ Len(response.content) = 1
    /\ Text.json = outcome.value
    /\ "isError" \notin DOMAIN response

\* the names the five groups declare, and the names of the last enumeration
DeclaredNames == {Flatten(Declared)[i] : i \in DOMAIN Flatten(Declared)}
EnumeratedNames == {tools[i].name : i \in DOMAIN tools}

\* one catalog entry per declared name, at startup and ever after
CatalogComposed ==
    /\ Cardinality(DeclaredNames) = Len(Flatten(Declared))
    /\ allTools = DeclaredNames
    /\ allTools = ComposeCatalog

\* the enumeration holds one (name, description, input schema) triple per entry
EnumerationComplete ==
    pc = "listed" =>
        /\ Len(tools) = Cardinality(allTools)
        /\ EnumeratedNames = allTools
        /\ \A i \in DOMAIN tools :
              /\ DOMAIN tools[i] = {"name", "description", "inputSchema"}
              /\ tools[i].description = description(tools[i].name)
              /\ tools[i].inputSchema = JsonSchema(inputSchema(tools[i].name))

\* C18 (as claimed) -- Catalog and enumeration: the catalog has one entry per
\* declared operation name and never changes; the enumeration returns one
\* (name, description, input schema) triple per entry; and a name is
\* enumerated exactly when invoking it is not answered with the
\* unknown-operation failure.
C18_CatalogEnumeration ==
    /\ CatalogComposed
    /\ EnumerationComplete
    /\ Done => (name \in allTools <=> response # UnknownTool(name))

\* the text is of the form <int><unit>
MatchesGrammar(text) ==
    /\ Len(text) >= 2
    /\ Char(text, Len(text)) \in {"s", "m", "h", "d", "w"}
    /\ \A i \in 1..(Len(text) - 1) : Char(text, i) \in Digits

\* C19 (as claimed) -- query_range time range: a start of the form
\* <int><unit> is sent as the instant now - duration; any other start is
\* sent unchanged and raises nothing; end is now when absent and step is "1m"
\* when absent; exactly one range query goes out with these values and the
\* returned timeRange reports them.
C19_QueryRangeTimeRange ==
    (InCall /\ handlerRan /\ name = "query_range") =>
        /\ Len(Issued) = 1
        /\ Len(RangeQueries) = 1
        /\ LET sent == RangeQueries[1].params IN
           /\ sent.query = <<validatedArgs.query>>
           /\ sent.start = IF MatchesGrammar(validatedArgs.start)
                           THEN Before(clockLog[1], Millis(validatedArgs.start))
                           ELSE validatedArgs.start
           /\ "end" \notin DOMAIN args =>
                 /\ clockLog # <<>>
                 /\ sent.end = toISOString(Date(FALSE, clockLog[Len(clockLog)]))
           /\ ("end" \in DOMAIN args /\ args.end # "") => sent.end = args.end
           /\ "step" \notin DOMAIN args => sent.step = "1m"
           /\ ("step" \in DOMAIN args /\ args.step # "") => sent.step = args.step
           /\ (Done /\ outcome.kind = "return") =>
                 Text.json.timeRange =
                     [start |-> sent.start, end |-> sent.end, step |-> sent.step]

\* C20 (as claimed) -- list_metrics cap: for every limit the schema accepts,
\* zero and negative numbers included, and every backend list, the metrics
\* returned are the first min(limit, matchingCount) names that contain the
\* search text case-insensitively, so returnedCount never exceeds the limit
\* (100 when omitted); total counts every name and matchingCount every
\* matching name.
C20_ListMetricsCap ==
    (Done /\ handlerRan /\ name = "list_metrics" /\ outcome.kind = "return") =>
        LET names == clientLog[1].result.value
            search == IF "search" \in DOMAIN validatedArgs THEN validatedArgs.search ELSE ""
            limit == IF "limit" \in DOMAIN args THEN args.limit.num ELSE 100
            matching == SelectSeq(names,
                                  LAMBDA m : Includes(toLowerCase(m), toLowerCase(search)))
            cap == IF limit < Len(matching) THEN limit ELSE Len(matching)
            json == Text.json
        IN  /\ json.total = Len(names)
            /\ json.matchingCount = Len(matching)
            /\ json.returnedCount = Len(json.metrics)
            /\ json.metrics = SubSeq(matching, 1, cap)
            /\ limit >= 0 => json.returnedCount <= limit

UnitNames == <<"Bytes", "KB", "MB", "GB", "TB">>

EndsWith(text, suffix) ==
    Len(text) >= Len(suffix) /\ SubSeq(text, Len(text) - Len(suffix) + 1, Len(text)) = suffix

\* floor(log_1024(bytes)) of a positive byte count below 1024^7
ExactIndex(bytes) ==
    CHOOSE i \in 0..6 : /\ ~Greater(Power(Kilo, i), bytes)
                        /\ Greater(Power(Kilo, i + 1), bytes)

\* the memory usage entries get_tsdb_status has returned
MemoryUsage == Text.json.topLabelsByMemoryUsage

\* C21 (as claimed) -- Byte formatting: 0 is rendered "0 Bytes", 1024 "1 KB"
\* and 1048576 "1 MB"; every positive integer byte count is rendered with the
\* unit of Bytes/KB/MB/GB/TB at index floor(log_1024(bytes)), so the unit is
\* always one of those five names.
C21_ByteFormatting ==
    (Done /\ handlerRan /\ name = "get_tsdb_status" /\ outcome.kind = "return") =>
        \A i \in DOMAIN MemoryUsage :
            LET bytes == MemoryUsage[i].bytes
                text == MemoryUsage[i].humanReadable
            IN  /\ bytes = Num(0) => text = "0 Bytes"
                /\ bytes = Kilo => text = "1 KB"
                /\ bytes = Power(Kilo, 2) => text = "1 MB"
                /\ bytes # Num(0) =>
                      \E j \in DOMAIN UnitNames :
                          /\ j = ExactIndex(bytes) + 1
                          /\ EndsWith(text, " " \o UnitNames[j])

\* the probes of this call that went on to their fallback request
Fallbacks ==
    Cardinality({i \in DOMAIN clientLog :
                    clientLog[i].method = "testConnection" /\ Len(clientLog[i].https) = 2})

\* C22 -- Single attempt: every client method but the connectivity probe
\* issues exactly one GET whether it succeeds or fails, and the probe at most
\* one more after a failed first one; no failed request is issued again; so
\* the requests of a tool call are as many as the client-method calls of its
\* handler, plus at most one fallback request of the probe.
C22_SingleAttempt ==
    /\ \A i \in DOMAIN clientLog :
          LET e == clientLog[i] IN
          IF e.method # "testConnection" THEN Len(e.https) = 1
          ELSE /\ Len(e.https) \in {1, 2}
               /\ Len(e.https) = 2 => e.https[1] \in AllFailures
    /\ \A k \in DOMAIN httpLog :
          httpLog[k].http \in AllFailures =>
              /\ k + 1 \in DOMAIN httpLog => httpLog[k + 1].request # httpLog[k].request
              /\ (k = Len(httpLog) /\ pc = "await") => pending # httpLog[k].request
    /\ Fallbacks <= 1
    /\ Done => Len(httpLog) = Len(clientLog) + Fallbacks
    /\ pc = "await" =>
          /\ Len(httpLog) = Len(clientLog) + Fallbacks + Len(frame.https)
          /\ Len(frame.https) <= 1
          /\ Len(frame.https) = 1 => frame.method = "testConnection"

C22_Witness ==
    /\ Done /\ name = "query_node_exporter"
    /\ Len(clientLog) >= 2
    /\ Len(httpLog) = Len(clientLog)
    /\ httpLog[1].http \in AllFailures
    /\ httpLog[2].request # httpLog[1].request

\* a client method run alone on the responses it is given, in order
RECURSIVE MethodAlone(_, _, _)
MethodAlone(method, mstate, https) ==
    LET m == MethodStep(method, mstate, Head(https)) IN
    IF m.done THEN [result |-> m.result, rest |-> Tail(https)]
    ELSE MethodAlone(method, m.mstate, Tail(https))

\* a handler run alone from one of its steps on
RECURSIVE HandlerAlone(_, _, _)
HandlerAlone(tool, step, https) ==
    IF step.kind = "throw" THEN ToolError(tool, step.error).response
    ELSE IF step.kind = "return" THEN ToolResult(step.value)
    ELSE LET m == MethodAlone(step.method, [step |-> "buildinfo"], https) IN
         HandlerAlone(tool, HandlerResume(tool, step.h, m.result), m.rest)

\* the answer of a call that runs alone, given the readings of the clock and
\* the backend responses the call got
Alone(call) ==
    LET d == Dispatch(call.name, call.hasArgs, call.args)
        clock == IF call.clockLog = <<>> THEN <<Now, Now>>
                 ELSE <<call.clockLog[1], call.clockLog[Len(call.clockLog)]>>
        https == [i \in DOMAIN call.httpLog |-> call.httpLog[i].http]
    IN  IF d.kind = "respond" THEN d.response
        ELSE IF d.kind = "throw" THEN ToolError(call.name, d.error).response
        ELSE HandlerAlone(call.name, HandlerStart(call.name, d.validatedArgs, clock), https)

\* C23 -- Call independence: however two tool calls in progress at the same
\* time interleave at their awaits, the answer of each is the one the call
\* gives when it runs alone against the same backend responses, and no call
\* changes the catalog or the connection descriptor.
C23_CallIndependence ==
    /\ allTools = ComposeCatalog
    /\ config = loadConfig
    /\ \A call \in {ThisCall, other} :
          call.pc = "done" => /\ ~call.uncaught
                              /\ call.response = Alone(call)

C23_Witness ==
    /\ Done /\ name = "query_windows_exporter" /\ handlerRan
    /\ outcome.kind = "return"
    /\ Len(httpLog) = 2
    /\ other.pc = "await" /\ other.name = "test_connection"
    /\ Len(other.httpLog) = 1
    /\ response = Alone(ThisCall)

\* C24 -- Probe-results helper: query_blackbox_exporter issues the
\* probe_success query first; when it fails the call fails and no duration
\* query is issued; when it has returned, the probe_duration_seconds query
\* is issued with the same label filters; when that one fails the call still
\* succeeds and every probe has durationSeconds null.
C24_ProbeAsymmetry ==
    (InCall /\ handlerRan /\ name = "query_blackbox_exporter") =>
        /\ Len(Issued) \in {1, 2}
        /\ Head(Issued[1].params.query) = "probe_success"
        /\ \A key \in {"target", "module"} :
              Truthy(Field(validatedArgs, key)) =>
                  Contains(Issued[1].params.query, validatedArgs[key])
        /\ Len(Issued) = 2 <=> (clientLog # <<>> /\ clientLog[1].result.ok)
        /\ Len(Issued) = 2 =>
              Issued[2] = Get("/api/v1/query",
                              [query |-> <<"probe_duration_seconds">>
                                            \o Tail(Issued[1].params.query)])
        /\ (clientLog # <<>> /\ ~clientLog[1].result.ok) =>
              /\ Done
              /\ outcome.kind = "throw"
              /\ IsError(response)
        /\ (Len(clientLog) = 2 /\ ~clientLog[2].result.ok) =>
              /\ Done
              /\ outcome.kind = "return"
              /\ ~IsError(response)
              /\ Len(Text.json.probes) = Len(clientLog[1].result.value.result)
              /\ \A i \in DOMAIN Text.json.probes : Text.json.probes[i].durationSeconds = Null

C24_Witness ==
    /\ Done /\ handlerRan /\ name = "query_blackbox_exporter"
    /\ Len(clientLog) = 2
    /\ clientLog[1].result.ok /\ ~clientLog[2].result.ok
    /\ ~IsError(response)
    /\ Len(Text.json.probes) = 2
    /\ \A i \in DOMAIN Text.json.probes : Text.json.probes[i].durationSeconds = Null

\* the client-method calls the handler of this call makes when none fails
Planned ==
    CASE name \in ExporterTools -> Len(Synthesized)
      [] name = "get_prometheus_status" -> Len(Selected(validatedArgs.include))
      [] name = "query_blackbox_exporter" -> 2
      [] OTHER -> 1

SomeFailed == \E i \in DOMAIN clientLog : ~clientLog[i].result.ok

\* every suspended call is answered, with one envelope and once
Answered ==
    /\ (pc = "await") ~> (pc = "done")
    /\ [](Done => (~uncaught /\ Len(response.content) = 1))
    /\ [][pc = "done" => (pc' = "idle" /\ response' = NoResponse)]_vars

\* C25 (as claimed) -- Run to completion: when every GET settles, every tool
\* call is eventually answered with exactly one envelope, and in no handler
\* does a failed sub-request leave a later sub-request unissued.
C25_RunToCompletionEveryHandler ==
    /\ Answered
    /\ []((Done /\ handlerRan /\ SomeFailed) => Len(clientLog) = Planned)

\* C25 (amended) -- Run to completion: when every GET settles, every tool
\* call is eventually answered with exactly one envelope; in the exporter
\* helpers and get_prometheus_status a failed sub-request leaves no later
\* sub-request unissued; in query_blackbox_exporter a failed probe_success
\* query ends the call and the duration query is not issued.
C25_RunToCompletion ==
    /\ Answered
    /\ []((Done /\ handlerRan /\ SomeFailed) =>
            IF name = "query_blackbox_exporter" /\ ~clientLog[1].result.ok
            THEN Len(clientLog) = 1 /\ IsError(response)
            ELSE Len(clientLog) = Planned)

C25_Witness ==
    /\ Done /\ handlerRan /\ name = "query_windows_exporter"
    /\ Planned >= 2
    /\ ~clientLog[1].result.ok
    /\ Len(clientLog) = Planned
    /\ Len(response.content) = 1
    /\ ~IsError(response)

\* the operations every parameter of which is optional or absent
AllOptional(tool) ==
    \A k \in DOMAIN inputSchema(tool) : ~inputSchema(tool)[k].required

\* C26 -- Omitted argument object: a catalog operation whose parameters are
\* all optional or absent, called without an argument object, runs its
\* handler with the schema defaults and is answered as the same call with an
\* empty argument object is, never with the invalid-arguments failure.
C26_OmittedArguments ==
    (Done /\ ~hasArgs /\ name \in allTools /\ AllOptional(name)) =>
        /\ handlerRan
        /\ validatedArgs = safeParse(inputSchema(name), TRUE, EmptyObject).data
        /\ response = Alone([ThisCall EXCEPT !.hasArgs = TRUE])

====
